---- MODULE Spec2Model ----
(***************************************************************************)
(* Task hierarchy and synchronisation core of the TODO client: the Remote  *)
(* Task Gateway (APIClient), the task form (TaskFormModal), the root list  *)
(* screen (TodoScreen), the subtask screen (SubTaskScreen) and the         *)
(* single-file screen of app/(tabs)/index.tsx, each against a remote task  *)
(* server reached through requests that are answered in any order.         *)
(***************************************************************************)
EXTENDS Integers, Sequences, FiniteSets, TLC

VARIABLES
    server,                 \* the server's flat task collection, in its order
    nextId,                 \* the id the server assigns to the next created task
    net,                    \* requests in flight, in issuance order
    budget,                 \* handler runs that send a request, left within the model's bound
    formVariant,            \* which TaskFormModal source file is mounted
    formPriority,           \* TaskFormModal: priority state (picker value)
    tasks,                  \* TodoScreen: tasks state
    fetched,                \* history: some fetchTasks of the screen has succeeded
    loading,                \* TodoScreen: loading state
    refreshing,             \* TodoScreen: refreshing state
    modalVisible,           \* TodoScreen: modalVisible state
    editingTask,            \* TodoScreen: editingTask state
    suggestedModalVisible,  \* TodoScreen: suggestedModalVisible state
    confirmDelete,          \* TodoScreen: task id of the open delete prompt
    alert,                  \* the error alert last shown and not dismissed
    nav,                    \* "init" before the mount effects, then the screen on top
    task,                   \* SubTaskScreen: task state (the parent, from route.params)
    subtasks,               \* SubTaskScreen: subtasks state
    subFetched,             \* history: some fetchSubtasks of the screen has succeeded
    subLoading,             \* SubTaskScreen: loading state
    subModalVisible,        \* SubTaskScreen: modalVisible state
    subEditingTask,         \* SubTaskScreen: editingTask state
    isAddingSubtask,        \* SubTaskScreen: isAddingSubtask state
    subFormPriority,        \* priority state of the SubTaskScreen's TaskFormModal
    subMounted,             \* whether the SubTaskScreen's mount effect has run
    legacyTasks,            \* index.tsx TodoScreen: tasks state
    legacyLoading,          \* index.tsx TodoScreen: loading state
    showTaskForm,           \* index.tsx TodoScreen: showTaskForm state
    legacyEditingTask,      \* index.tsx TodoScreen: editingTask state
    filter,                 \* index.tsx TodoScreen: filter state
    legacyPriority,         \* priority state of the TaskFormModal of index.tsx
    legacyConfirm,          \* the delete confirmation of index.tsx: task id and captured list
    legacyAlert,            \* the error alert index.tsx shows, "none" when there is none
    legacyMounted,          \* whether the mount effect of index.tsx TodoScreen has run
    call,                   \* the arguments of a direct call of APIClient.createTask
    sent,                   \* the JSON body that call put on the wire, EmptyBody before it
    token,                  \* APIClient.token, the credential held in memory
    stored,                 \* the value under 'token' in AsyncStorage
    ops,                    \* AsyncStorage operations issued and not yet completed
    reqs,                   \* the gateway calls made so far: stage, headers sent, session
                            \* at the call (began) and at the dispatch (sentIn)
    session,                \* history: "fresh", "in" after login returned, "out" after a clear
    reply,                  \* what fetch() gives one call of the gateway: a response or a failure
    outcome,                \* how that call of the gateway ended, "pending" before it has
    recStack,               \* the navigation stack of the recovery screens, top last
    username,               \* ForgotPasswordScreen: username state
    forgotLoading,          \* ForgotPasswordScreen: loading state
    answerInst,             \* the SecurityAnswerScreen instances mounted so far
    routeUsername,          \* SecurityAnswerScreen: route.params.username
    securityQuestion,       \* SecurityAnswerScreen: securityQuestion state
    answerLoading,          \* SecurityAnswerScreen: loading state
    questionLoading,        \* SecurityAnswerScreen: questionLoading state
    resetToken,             \* ResetPasswordScreen: route.params.token, 0 when never entered
    recAlert,               \* the text of the alert last raised by the recovery screens
    recNet,                 \* recovery requests in flight, in issuance order
    accounts,               \* the usernames the server knows
    issued,                 \* the reset tokens the server has issued so far
    recBudget,              \* handler runs that send a recovery request, left within the bound
    resetInst,              \* the ResetPasswordScreen instances mounted so far
    resetLoading,           \* ResetPasswordScreen: loading state
    resetAck,               \* the success alert of the reset is up, its OK not pressed yet
    newPassword,            \* ResetPasswordScreen: newPassword state
    confirmPassword         \* ResetPasswordScreen: confirmPassword state

\* the server, the network and the build
envVars == <<server, nextId, net, budget, formVariant>>

\* the root screen and its form
rootVars == <<formPriority, tasks, fetched, loading, refreshing, modalVisible, editingTask,
              suggestedModalVisible, confirmDelete, alert, nav>>

\* the subtask screen and its form
subVars == <<task, subtasks, subFetched, subLoading, subModalVisible, subEditingTask,
             isAddingSubtask, subFormPriority, subMounted>>

\* the single-file screen of index.tsx and its form
legacyVars == <<legacyTasks, legacyLoading, showTaskForm, legacyEditingTask, filter,
                legacyPriority, legacyConfirm, legacyAlert, legacyMounted>>

\* a direct call of the gateway
callVars == <<call, sent>>

\* the credential of the gateway and the calls that read it
gatewayVars == <<token, stored, ops, reqs, session>>

\* one call of the gateway and the answer it is given
handVars == <<reply, outcome>>

\* the password recovery screens and their server
recVars == <<recStack, username, forgotLoading, answerInst, routeUsername, securityQuestion,
             answerLoading, questionLoading, resetToken, recAlert, recNet, accounts, issued,
             recBudget, resetInst, resetLoading, resetAck, newPassword, confirmPassword>>

\* the state of the ResetPasswordScreen
resetForm == <<resetInst, resetLoading, resetAck, newPassword, confirmPassword>>

\* outside the task screens
otherVars == <<callVars, gatewayVars, handVars, recVars>>

\* what the credential's operations cannot touch
offGateway == <<envVars, rootVars, subVars, legacyVars, callVars, handVars, recVars>>

\* what the handling of one answer cannot touch
offHand == <<envVars, rootVars, subVars, legacyVars, callVars, gatewayVars, recVars>>

\* what the recovery screens cannot touch
offRec == <<envVars, rootVars, subVars, legacyVars, callVars, gatewayVars, handVars>>

\* every screen's state
screenVars == <<rootVars, subVars, legacyVars, otherVars>>

\* what the root screen's handlers cannot touch
offRoot == <<subVars, legacyVars, otherVars>>

\* what the subtask screen's handlers cannot touch
offSub == <<rootVars, legacyVars, otherVars>>

\* what the handlers of index.tsx cannot touch
offLegacy == <<rootVars, subVars, otherVars>>

vars == <<envVars, rootVars, subVars, legacyVars, otherVars>>

----------------------------------------------------------------------------
(* Bounds of the model *)

MaxId == 3
MaxInflight == 2
MaxSends == 1

----------------------------------------------------------------------------
(* JavaScript values *)

\* undefined, for a numeric field or argument (ids and depths are >= 0)
Absent == -1

\* a JavaScript value that is a number, a string or undefined
JNum(n) == [k |-> "num", n |-> n, s |-> ""]
JStr(s) == [k |-> "str", n |-> 0, s |-> s]
JUndef == [k |-> "undef", n |-> 0, s |-> ""]

\* truthiness of a number-or-undefined: 0 and undefined are falsy
Truthy(x) == x # Absent /\ x # 0

\* truthiness of a JavaScript value: undefined, 0 and "" are falsy
JTruthy(v) ==
    CASE v.k = "num" -> v.n # 0
      [] v.k = "str" -> v.s # ""
      [] OTHER -> FALSE

Priorities == {"low", "medium", "high"}

----------------------------------------------------------------------------
(* Task (APIClient.ts, interface Task) *)

\* is_subtask is "true", "false" or "absent"; parent_task_id and depth are
\* numbers or Absent
Task(id, priority, completed, is_subtask, parent, depth) ==
    [id |-> id, priority |-> priority, completed |-> completed,
     is_subtask |-> is_subtask, parent_task_id |-> parent, depth |-> depth]

\* editingTask = undefined
NoTask == Task(Absent, 0, FALSE, "absent", Absent, Absent)

RemoveAt(s, i) == SubSeq(s, 1, i - 1) \o SubSeq(s, i + 1, Len(s))

Ids(s) == {s[i].id : i \in DOMAIN s}

----------------------------------------------------------------------------
(* Strings as sequences of characters *)

TrimLeft(s) ==
    LET F[i \in 0..Len(s)] ==
            IF i = Len(s) THEN <<>>
            ELSE IF s[i + 1] = " " THEN F[i + 1]
            ELSE SubSeq(s, i + 1, Len(s))
    IN F[0]

TrimRight(s) ==
    LET F[i \in 0..Len(s)] ==
            IF i = 0 THEN <<>>
            ELSE IF s[i] = " " THEN F[i - 1]
            ELSE SubSeq(s, 1, i)
    IN F[Len(s)]

\* String.prototype.trim
Trim(s) == TrimRight(TrimLeft(s))

\* the titles a user types into the form
TitleInputs == {<<>>, <<" ">>, <<" ", "a", " ">>}

MAX_TITLE_LENGTH == 100

\* a title of one character more than the capped form holds
LongTitle == [k \in 1..MAX_TITLE_LENGTH + 1 |-> "a"]

\* what a user types into the title field of the form
TypedTitles == TitleInputs \cup {LongTitle}

\* the title state once text is typed: onChangeText is setTitle in the plain
\* form, handleTitleChange in the capped one
HandleTitleChange(variant, text) ==
    IF variant = "capped" /\ Len(text) > MAX_TITLE_LENGTH
    THEN SubSeq(text, 1, MAX_TITLE_LENGTH)
    ELSE text

----------------------------------------------------------------------------
(* Remote Task Gateway (APIClient.ts) *)

EmptyBody == [x \in {} |-> 0]

\* const priorityMap = { low: 1, medium: 2, high: 3 }; priorityMap[priority]
CreatePriorityLookup(priority) ==
    CASE priority = JStr("low") -> JNum(1)
      [] priority = JStr("medium") -> JNum(2)
      [] priority = JStr("high") -> JNum(3)
      [] OTHER -> JUndef

\* the JSON body of createTask(title, priority = 'medium', parentTaskId?, depth?);
\* JSON.stringify drops a key whose value is undefined
CreateTaskBody(title, priority, parentTaskId, depth) ==
    LET p == IF priority = JUndef THEN JStr("medium") ELSE priority
        mapped == CreatePriorityLookup(p)
    IN  [title |-> title]
        @@ (IF mapped # JUndef THEN [priority |-> mapped] ELSE EmptyBody)
        @@ (IF Truthy(parentTaskId) THEN [parent_task_id |-> parentTaskId] ELSE EmptyBody)
        @@ (IF Truthy(depth) THEN [depth |-> depth] ELSE EmptyBody)

\* a body of updateTask that carries the completed flag too
UpdateTaskBodyWithCompleted(updates) ==
    [title |-> updates.title, completed |-> FALSE]
    @@ (IF updates.priority # JUndef THEN [priority |-> updates.priority] ELSE EmptyBody)

\* the JSON body of updateTask(taskId, updates): the updates as given
UpdateTaskBody(updates) ==
    [title |-> updates.title]
    @@ (IF updates.priority # JUndef THEN [priority |-> updates.priority] ELSE EmptyBody)

\* a request in flight: st is "sent" until the server has answered it, then
\* "ok" (2xx) or "err" (request() threw); resp is the task list of a 2xx
\* answer (the list of a list request, the task of a create or an update); then
\* names what the caller awaiting it does next; seen is the list the awaiting
\* closure captured, for the handlers that read it after the await
Request(op, id, body, then) ==
    [op |-> op, id |-> id, body |-> body, then |-> then, st |-> "sent", resp |-> <<>>,
     seen |-> <<>>]

GetTasks(then) == Request("getTasks", Absent, EmptyBody, then)
GetSubTasks(taskId, then) == Request("getSubTasks", taskId, EmptyBody, then)
CreateTask(title, priority, parentTaskId, depth, then) ==
    Request("createTask", Absent, CreateTaskBody(title, priority, parentTaskId, depth), then)
UpdateTask(taskId, updates, then) == Request("updateTask", taskId, UpdateTaskBody(updates), then)
CompleteTask(taskId, then) == Request("completeTask", taskId, EmptyBody, then)
DeleteTask(taskId, then) == Request("deleteTask", taskId, EmptyBody, then)

Mutations == {"createTask", "updateTask", "completeTask", "deleteTask"}

----------------------------------------------------------------------------
(* Task form (TaskFormModal) *)

FormVariants == {"plain", "capped"}

\* const priorityMap = { 1: {label: 'Low'}, 2: {label: 'Medium'}, 3: {label: 'High'} };
\* priorityMap[n]?.label.toLowerCase()
FormPriorityLabel(n) ==
    CASE n = 1 -> JStr("low")
      [] n = 2 -> JStr("medium")
      [] n = 3 -> JStr("high")
      [] OTHER -> JUndef

\* the effect on [initialData, visible]: the priority the form shows
FormInitPriority(variant, initialData) ==
    IF variant = "plain"
    THEN IF initialData = NoTask THEN JStr("medium") ELSE JNum(initialData.priority)
    ELSE IF initialData # NoTask /\ Truthy(initialData.priority)
         THEN IF JTruthy(FormPriorityLabel(initialData.priority))
              THEN FormPriorityLabel(initialData.priority)
              ELSE JStr("low")
         ELSE JStr("low")

\* a handleSave of the form that checks nothing
FormSaveValidAlways(variant, title) == TRUE

\* handleSave of the form: whether it calls onSave for the typed title
FormSaveValid(variant, title) ==
    IF variant = "plain"
    THEN Trim(title) # <<>>
    ELSE Trim(title) # <<>> /\ Len(Trim(title)) <= MAX_TITLE_LENGTH

\* handleSave of the form: the taskData it hands to onSave
FormTaskData(variant, title, priority) ==
    [title |-> IF variant = "plain" THEN title ELSE Trim(title), priority |-> priority]

\* whether handleSave of the form calls onClose() right after onSave()
FormClosesOnSave(variant) == variant = "capped"

----------------------------------------------------------------------------
(* The remote task server (external collaborator, spec.md sections 3, 4.1, 6) *)

BodyNum(body, key, default) == IF key \in DOMAIN body THEN body[key] ELSE default

BodyPriority(body, default) ==
    IF "priority" \notin DOMAIN body THEN default
    ELSE CASE body.priority.k = "num" -> body.priority.n
           [] body.priority = JStr("low") -> 1
           [] body.priority = JStr("medium") -> 2
           [] body.priority = JStr("high") -> 3
           [] OTHER -> default

\* POST /tasks: the created task; presence of parent_task_id makes it a subtask
ServerCreated(id, body) ==
    Task(id, BodyPriority(body, 2), FALSE,
         IF "parent_task_id" \in DOMAIN body THEN "true" ELSE "false",
         BodyNum(body, "parent_task_id", Absent), BodyNum(body, "depth", 0))

\* the ids removed by DELETE /tasks/{id}: the task and its descendants
Doomed(srv, id) ==
    LET F[n \in 0..Len(srv)] ==
            IF n = 0 THEN {id}
            ELSE F[n - 1] \cup {srv[i].id : i \in {j \in DOMAIN srv : srv[j].parent_task_id \in F[n - 1]}}
    IN F[Len(srv)]

\* GET /tasks/{id}/subtasks: the direct children, in the server's order
ServerSubtasks(srv, id) == SelectSeq(srv, LAMBDA t : t.parent_task_id = id)

\* whether the server answers the request with a 2xx status
ServerAccepts(srv, req) ==
    req.op \in {"getTasks", "getSubTasks", "createTask"} \/ req.id \in Ids(srv)

\* the server's collection after a request it accepted
ServerAfter(srv, nid, req) ==
    CASE req.op = "createTask" -> Append(srv, ServerCreated(nid, req.body))
      [] req.op = "updateTask" ->
            [i \in DOMAIN srv |->
                IF srv[i].id = req.id
                THEN [srv[i] EXCEPT !.priority = BodyPriority(req.body, @)]
                ELSE srv[i]]
      [] req.op = "completeTask" ->
            [i \in DOMAIN srv |->
                IF srv[i].id = req.id THEN [srv[i] EXCEPT !.completed = TRUE] ELSE srv[i]]
      [] req.op = "deleteTask" -> SelectSeq(srv, LAMBDA t : t.id \notin Doomed(srv, req.id))
      [] OTHER -> srv

\* what a 2xx answer carries: the list, or the task created or updated
ServerResponse(srv, nid, req) ==
    CASE req.op = "getTasks" -> srv
      [] req.op = "getSubTasks" -> ServerSubtasks(srv, req.id)
      [] req.op = "createTask" -> <<ServerCreated(nid, req.body)>>
      [] req.op = "updateTask" -> SelectSeq(ServerAfter(srv, nid, req), LAMBDA t : t.id = req.id)
      [] OTHER -> <<>>

\* the server answers request i: a 2xx answer with the request applied
ServerOk(i) ==
    /\ i \in DOMAIN net
    /\ net[i].st = "sent"
    /\ ServerAccepts(server, net[i])
    /\ server' = ServerAfter(server, nextId, net[i])
    /\ nextId' = IF net[i].op = "createTask" THEN nextId + 1 ELSE nextId
    /\ net' = [net EXCEPT ![i].st = "ok", ![i].resp = ServerResponse(server, nextId, net[i])]
    /\ UNCHANGED <<budget, formVariant, screenVars>>

\* request i fails: an error status or no answer at all, nothing applied
ServerFail(i) ==
    /\ i \in DOMAIN net
    /\ net[i].st = "sent"
    /\ net' = [net EXCEPT ![i].st = "err"]
    /\ UNCHANGED <<server, nextId>>
    /\ UNCHANGED <<budget, formVariant, screenVars>>

\* the server answers list request i with a 2xx status and success: false
ServerRefuse(i) ==
    /\ i \in DOMAIN net
    /\ net[i].st = "sent"
    /\ net[i].op = "getSubTasks"
    /\ net' = [net EXCEPT ![i].st = "refused"]
    /\ UNCHANGED <<server, nextId>>
    /\ UNCHANGED <<budget, formVariant, screenVars>>

\* creates not yet applied by the server
PendingCreates == Cardinality({i \in DOMAIN net : net[i].op = "createTask" /\ net[i].st = "sent"})

\* room for one more request under the model's bounds
CanIssue(req) ==
    /\ Len(net) < MaxInflight
    /\ budget > 0
    /\ req.op = "createTask" => nextId + PendingCreates <= MaxId

\* the request leaves the client
Send(req) ==
    /\ net' = Append(net, req)
    /\ budget' = budget - 1

----------------------------------------------------------------------------
(* Root list screen (screens/TodoScreen.tsx, lines 24-279) *)

\* a filter on is_subtask === false, which drops the tasks without the flag
ParentTasksStrict(resp) == SelectSeq(resp, LAMBDA t : t.is_subtask = "false")

\* (response.tasks || []).filter(task => !task.is_subtask)
ParentTasks(resp) == SelectSeq(resp, LAMBDA t : t.is_subtask # "true")

\* the form's effect on [initialData, visible], run when either changed
FormEffect ==
    formPriority' =
        IF modalVisible' # modalVisible \/ editingTask' # editingTask
        THEN FormInitPriority(formVariant, editingTask')
        ELSE formPriority

\* the controls of the list are rendered and nothing covers them
ListUsable ==
    /\ nav = "root"
    /\ ~loading
    /\ ~modalVisible
    /\ ~suggestedModalVisible
    /\ confirmDelete = Absent
    /\ alert = "none"

\* the task form is shown and nothing covers it
FormUsable ==
    /\ nav = "root"
    /\ ~loading
    /\ modalVisible
    /\ confirmDelete = Absent
    /\ alert = "none"

\* useEffect(() => fetchTasks(), []) and useFocusEffect(fetchTasks) on mount
Mount ==
    /\ nav = "init"
    /\ nav' = "root"
    /\ net' = net \o <<GetTasks("none"), GetTasks("none")>>
    /\ budget' = budget
    /\ UNCHANGED <<server, nextId, formVariant, formPriority, tasks, fetched, loading, refreshing,
                   modalVisible, editingTask, suggestedModalVisible, confirmDelete, alert>>
    /\ UNCHANGED offRoot

\* handleTaskPress: navigation.navigate('SubTaskScreen', { task })
PressTask ==
    /\ ListUsable
    /\ tasks # <<>>
    /\ nav' = "sub"
    /\ UNCHANGED <<server, nextId, net, budget, formVariant, formPriority, tasks, fetched, loading, refreshing,
                   modalVisible, editingTask, suggestedModalVisible, confirmDelete, alert>>
    /\ UNCHANGED offRoot

\* back from the subtask screen: useFocusEffect runs fetchTasks
Focus ==
    /\ nav = "sub"
    /\ CanIssue(GetTasks("none"))
    /\ nav' = "root"
    /\ Send(GetTasks("none"))
    /\ UNCHANGED <<server, nextId, formVariant, formPriority, tasks, fetched, loading, refreshing,
                   modalVisible, editingTask, suggestedModalVisible, confirmDelete, alert>>
    /\ UNCHANGED offRoot

\* RefreshControl.onRefresh: setRefreshing(true); fetchTasks()
Refresh ==
    /\ ListUsable
    /\ CanIssue(GetTasks("none"))
    /\ refreshing' = TRUE
    /\ Send(GetTasks("none"))
    /\ UNCHANGED <<server, nextId, formVariant, formPriority, tasks, fetched, loading,
                   modalVisible, editingTask, suggestedModalVisible, confirmDelete, alert, nav>>
    /\ UNCHANGED offRoot

\* "+ Add Task": setModalVisible(true)
OpenAdd ==
    /\ ListUsable
    /\ modalVisible' = TRUE
    /\ UNCHANGED <<server, nextId, net, budget, formVariant, tasks, fetched, loading, refreshing,
                   editingTask, suggestedModalVisible, confirmDelete, alert, nav>>
    /\ FormEffect
    /\ UNCHANGED offRoot

\* TaskItem Edit: onUpdate(t): setEditingTask(t); setModalVisible(true)
OpenEdit(i) ==
    /\ ListUsable
    /\ i \in DOMAIN tasks
    /\ editingTask' = tasks[i]
    /\ modalVisible' = TRUE
    /\ UNCHANGED <<server, nextId, net, budget, formVariant, tasks, fetched, loading, refreshing,
                   suggestedModalVisible, confirmDelete, alert, nav>>
    /\ FormEffect
    /\ UNCHANGED offRoot

\* Picker.onValueChange of the form
FormPick(p) ==
    /\ FormUsable
    /\ formPriority' = JStr(p)
    /\ UNCHANGED <<server, nextId, net, budget, formVariant, tasks, fetched, loading, refreshing, modalVisible,
                   editingTask, suggestedModalVisible, confirmDelete, alert, nav>>
    /\ UNCHANGED offRoot

\* Cancel of the form: onClose: setModalVisible(false); setEditingTask(undefined)
FormCancel ==
    /\ FormUsable
    /\ modalVisible' = FALSE
    /\ editingTask' = NoTask
    /\ UNCHANGED <<server, nextId, net, budget, formVariant, tasks, fetched, loading, refreshing,
                   suggestedModalVisible, confirmDelete, alert, nav>>
    /\ FormEffect
    /\ UNCHANGED offRoot

\* TodoScreen.handleSave up to its first await: the request it sends
SaveRequest(taskData) ==
    IF editingTask # NoTask
    THEN UpdateTask(editingTask.id, taskData, "save")
    ELSE CreateTask(taskData.title, taskData.priority, Absent, Absent, "save")

\* Save of the form: handleSave of the form, then TodoScreen.handleSave
FormSave(title) ==
    /\ FormUsable
    /\ IF FormSaveValid(formVariant, title)
       THEN LET req == SaveRequest(FormTaskData(formVariant, title, formPriority))
            IN  /\ CanIssue(req)
                /\ Send(req)
                /\ modalVisible' = (modalVisible /\ ~FormClosesOnSave(formVariant))
                /\ editingTask' = IF FormClosesOnSave(formVariant) THEN NoTask ELSE editingTask
                /\ FormEffect
       ELSE UNCHANGED <<net, budget, modalVisible, editingTask, formPriority>>
    /\ UNCHANGED <<server, nextId, formVariant, tasks, fetched, loading, refreshing,
                   suggestedModalVisible, confirmDelete, alert, nav>>
    /\ UNCHANGED offRoot

\* TaskItem Done/Undo: handleComplete(task.id)
PressComplete(i) ==
    /\ ListUsable
    /\ i \in DOMAIN tasks
    /\ CanIssue(CompleteTask(tasks[i].id, "complete"))
    /\ Send(CompleteTask(tasks[i].id, "complete"))
    /\ UNCHANGED <<server, nextId, formVariant, formPriority, tasks, fetched, loading, refreshing,
                   modalVisible, editingTask, suggestedModalVisible, confirmDelete, alert, nav>>
    /\ UNCHANGED offRoot

\* TaskItem Delete: handleDelete(task.id) opens the confirmation prompt
PressDelete(i) ==
    /\ ListUsable
    /\ i \in DOMAIN tasks
    /\ confirmDelete' = tasks[i].id
    /\ UNCHANGED <<server, nextId, net, budget, formVariant, formPriority, tasks, fetched, loading, refreshing,
                   modalVisible, editingTask, suggestedModalVisible, alert, nav>>
    /\ UNCHANGED offRoot

\* Cancel of the confirmation prompt
CancelDelete ==
    /\ confirmDelete # Absent
    /\ confirmDelete' = Absent
    /\ UNCHANGED <<server, nextId, net, budget, formVariant, formPriority, tasks, fetched, loading, refreshing,
                   modalVisible, editingTask, suggestedModalVisible, alert, nav>>
    /\ UNCHANGED offRoot

\* Delete of the confirmation prompt: onPress sends deleteTask(taskId)
ConfirmDelete ==
    /\ confirmDelete # Absent
    /\ CanIssue(DeleteTask(confirmDelete, "delete"))
    /\ Send(DeleteTask(confirmDelete, "delete"))
    /\ confirmDelete' = Absent
    /\ UNCHANGED <<server, nextId, formVariant, formPriority, tasks, fetched, loading, refreshing,
                   modalVisible, editingTask, suggestedModalVisible, alert, nav>>
    /\ UNCHANGED offRoot

\* "Suggestions": setSuggestedModalVisible(true)
OpenSuggest ==
    /\ ListUsable
    /\ suggestedModalVisible' = TRUE
    /\ UNCHANGED <<server, nextId, net, budget, formVariant, formPriority, tasks, fetched, loading, refreshing,
                   modalVisible, editingTask, confirmDelete, alert, nav>>
    /\ UNCHANGED offRoot

\* SuggestedTasksModal onClose: setSuggestedModalVisible(false); fetchTasks()
CloseSuggest ==
    /\ nav = "root"
    /\ suggestedModalVisible
    /\ alert = "none"
    /\ CanIssue(GetTasks("none"))
    /\ suggestedModalVisible' = FALSE
    /\ Send(GetTasks("none"))
    /\ UNCHANGED <<server, nextId, formVariant, formPriority, tasks, fetched, loading, refreshing,
                   modalVisible, editingTask, confirmDelete, alert, nav>>
    /\ UNCHANGED offRoot

\* the user acknowledges the error alert
DismissAlert ==
    /\ alert # "none"
    /\ alert' = "none"
    /\ UNCHANGED <<server, nextId, net, budget, formVariant, formPriority, tasks, fetched, loading, refreshing,
                   modalVisible, editingTask, suggestedModalVisible, confirmDelete, nav>>
    /\ UNCHANGED offRoot

\* a catch block that clears the list, as SubTaskScreen.fetchSubtasks does
TasksAfterFetchClearing(req, shown) == IF req.st = "ok" THEN ParentTasks(req.resp) ELSE <<>>

\* fetchTasks: setTasks(parentTasks) in the try block, nothing in the catch block
TasksAfterFetch(req, shown) == IF req.st = "ok" THEN ParentTasks(req.resp) ELSE shown

\* a fetchTasks without its finally block: the flags are cleared in the try
\* block only
FetchTasksDoneNoFinally(req, rest) ==
    /\ tasks' = TasksAfterFetch(req, tasks)
    /\ fetched' = (fetched \/ req.st = "ok")
    /\ alert' = IF req.st = "ok" THEN alert ELSE "fetch"
    /\ loading' = IF req.st = "ok" THEN FALSE ELSE loading
    /\ refreshing' = IF req.st = "ok" THEN FALSE ELSE refreshing
    /\ modalVisible' = (modalVisible /\ req.then # "save")
    /\ editingTask' = IF req.then = "save" THEN NoTask ELSE editingTask
    /\ FormEffect
    /\ net' = rest

\* fetchTasks after its await, for the answer req: try / catch / finally, then
\* what handleSave does once fetchTasks has returned
FetchTasksDone(req, rest) ==
    /\ tasks' = TasksAfterFetch(req, tasks)
    /\ fetched' = (fetched \/ req.st = "ok")
    /\ alert' = IF req.st = "ok" THEN alert ELSE "fetch"
    /\ loading' = FALSE
    /\ refreshing' = FALSE
    /\ modalVisible' = (modalVisible /\ req.then # "save")
    /\ editingTask' = IF req.then = "save" THEN NoTask ELSE editingTask
    /\ FormEffect
    /\ net' = rest

\* handleSave / handleDelete / handleComplete after the await of their mutation
MutationDone(req, rest) ==
    /\ IF req.st = "ok"
       THEN /\ net' = Append(rest, GetTasks(IF req.then = "save" THEN "save" ELSE "none"))
            /\ alert' = alert
       ELSE /\ net' = rest
            /\ alert' = req.then
    /\ UNCHANGED <<tasks, fetched, loading, refreshing, modalVisible, editingTask, formPriority>>

\* the answer to request i reaches the screen
Deliver(i) ==
    /\ i \in DOMAIN net
    /\ net[i].st # "sent"
    /\ IF net[i].op = "getTasks"
       THEN FetchTasksDone(net[i], RemoveAt(net, i))
       ELSE MutationDone(net[i], RemoveAt(net, i))
    /\ UNCHANGED <<server, nextId, budget, formVariant, suggestedModalVisible, confirmDelete, nav>>
    /\ UNCHANGED offRoot

----------------------------------------------------------------------------
(* The subtask screen *)

\* the list and the add button are rendered and the form does not cover them
SubListUsable ==
    /\ subMounted
    /\ ~subLoading
    /\ ~subModalVisible

\* the task form is rendered and shown
SubFormUsable ==
    /\ subMounted
    /\ ~subLoading
    /\ subModalVisible

\* the form's effect on [initialData, visible], run when either changed
SubFormEffect ==
    subFormPriority' =
        IF subModalVisible' # subModalVisible \/ subEditingTask' # subEditingTask
        THEN FormInitPriority(formVariant, subEditingTask')
        ELSE subFormPriority

\* useEffect(() => fetchSubtasks(), [task.id]) on mount
SubMount ==
    /\ task # NoTask
    /\ ~subMounted
    /\ subMounted' = TRUE
    /\ subLoading' = TRUE
    /\ net' = Append(net, GetSubTasks(task.id, "none"))
    /\ UNCHANGED <<server, nextId, budget, formVariant>>
    /\ UNCHANGED <<task, subtasks, subFetched, subModalVisible, subEditingTask, isAddingSubtask,
                   subFormPriority>>
    /\ UNCHANGED offSub

\* FlatList.onRefresh: fetchSubtasks up to its await
SubRefresh ==
    /\ SubListUsable
    /\ subtasks # <<>>
    /\ CanIssue(GetSubTasks(task.id, "none"))
    /\ subLoading' = TRUE
    /\ Send(GetSubTasks(task.id, "none"))
    /\ UNCHANGED <<server, nextId, formVariant>>
    /\ UNCHANGED <<task, subtasks, subFetched, subModalVisible, subEditingTask, isAddingSubtask,
                   subFormPriority, subMounted>>
    /\ UNCHANGED offSub

\* TaskItem Done/Undo: handleComplete(task.id) up to its await
SubPressComplete(i) ==
    /\ SubListUsable
    /\ i \in DOMAIN subtasks
    /\ CanIssue(CompleteTask(subtasks[i].id, "complete"))
    /\ Send(CompleteTask(subtasks[i].id, "complete"))
    /\ UNCHANGED <<server, nextId, formVariant, subVars>>
    /\ UNCHANGED offSub

\* TaskItem Delete: handleDelete(task.id) up to its await
SubPressDelete(i) ==
    /\ SubListUsable
    /\ i \in DOMAIN subtasks
    /\ CanIssue(DeleteTask(subtasks[i].id, "delete"))
    /\ Send(DeleteTask(subtasks[i].id, "delete"))
    /\ UNCHANGED <<server, nextId, formVariant, subVars>>
    /\ UNCHANGED offSub

\* TaskItem Edit: handleUpdate(task)
HandleUpdate(i) ==
    /\ SubListUsable
    /\ i \in DOMAIN subtasks
    /\ subEditingTask' = subtasks[i]
    /\ isAddingSubtask' = FALSE
    /\ subModalVisible' = TRUE
    /\ SubFormEffect
    /\ UNCHANGED <<envVars, task, subtasks, subFetched, subLoading, subMounted>>
    /\ UNCHANGED offSub

\* "+ Add Subtask": handleAddSubtask
HandleAddSubtask ==
    /\ SubListUsable
    /\ subEditingTask' = NoTask
    /\ isAddingSubtask' = TRUE
    /\ subModalVisible' = TRUE
    /\ SubFormEffect
    /\ UNCHANGED <<envVars, task, subtasks, subFetched, subLoading, subMounted>>
    /\ UNCHANGED offSub

\* Picker.onValueChange of the form
SubFormPick(p) ==
    /\ SubFormUsable
    /\ subFormPriority' = JStr(p)
    /\ UNCHANGED <<envVars, task, subtasks, subFetched, subLoading, subModalVisible,
                   subEditingTask, isAddingSubtask, subMounted>>
    /\ UNCHANGED offSub

\* Cancel of the form: the onClose the screen passes to it
SubFormCancel ==
    /\ SubFormUsable
    /\ subModalVisible' = FALSE
    /\ subEditingTask' = NoTask
    /\ isAddingSubtask' = FALSE
    /\ SubFormEffect
    /\ UNCHANGED <<envVars, task, subtasks, subFetched, subLoading, subMounted>>
    /\ UNCHANGED offSub

\* handleSave: priorityMap[taskData.priority as number] || 'low'
SubPriorityString(priority) ==
    IF priority.k = "num" /\ JTruthy(FormPriorityLabel(priority.n))
    THEN FormPriorityLabel(priority.n)
    ELSE JStr("low")

\* handleSave: (task.depth || 0) + 1
SubDepth(parent) == (IF Truthy(parent.depth) THEN parent.depth ELSE 0) + 1

\* SubTaskScreen.handleSave up to its first await: the request it sends
SubSaveRequest(taskData) ==
    IF subEditingTask # NoTask
    THEN UpdateTask(subEditingTask.id, taskData, "save")
    ELSE IF isAddingSubtask
         THEN CreateTask(taskData.title, SubPriorityString(taskData.priority), task.id,
                         SubDepth(task), "save")
         ELSE GetSubTasks(task.id, "save")

\* Save of the form: handleSave of the form, then SubTaskScreen.handleSave
SubFormSave(title) ==
    /\ SubFormUsable
    /\ IF FormSaveValid(formVariant, title)
       THEN LET req == SubSaveRequest(FormTaskData(formVariant, title, subFormPriority))
            IN  /\ CanIssue(req)
                /\ Send(req)
                /\ subLoading' = (req.op = "getSubTasks")
                /\ subModalVisible' = (subModalVisible /\ ~FormClosesOnSave(formVariant))
                /\ subEditingTask' = IF FormClosesOnSave(formVariant) THEN NoTask ELSE subEditingTask
                /\ isAddingSubtask' = (isAddingSubtask /\ ~FormClosesOnSave(formVariant))
                /\ SubFormEffect
       ELSE UNCHANGED <<net, budget, subLoading, subModalVisible, subEditingTask, isAddingSubtask,
                        subFormPriority>>
    /\ UNCHANGED <<server, nextId, formVariant, task, subtasks, subFetched, subMounted>>
    /\ UNCHANGED offSub

\* a fetchSubtasks that shows the pending subtasks of the response only
SubtasksAfterFetchPendingOnly(req, shown) ==
    IF req.st = "ok" THEN SelectSeq(req.resp, LAMBDA t : ~t.completed) ELSE <<>>

\* fetchSubtasks: setSubtasks(response.subtasks || []) on success, setSubtasks([])
\* on success: false and in the catch block
SubtasksAfterFetch(req, shown) == IF req.st = "ok" THEN req.resp ELSE <<>>

\* fetchSubtasks after its await, for the answer req, then what handleSave does
\* once fetchSubtasks has returned; the form is mounted anew when the spinner goes
FetchSubtasksDone(req, rest) ==
    /\ subtasks' = SubtasksAfterFetch(req, subtasks)
    /\ subFetched' = (subFetched \/ req.st = "ok")
    /\ subLoading' = FALSE
    /\ subModalVisible' = (subModalVisible /\ req.then # "save")
    /\ subEditingTask' = IF req.then = "save" THEN NoTask ELSE subEditingTask
    /\ isAddingSubtask' = (isAddingSubtask /\ req.then # "save")
    /\ subFormPriority' = IF subLoading THEN FormInitPriority(formVariant, subEditingTask')
                          ELSE IF subModalVisible' # subModalVisible \/ subEditingTask' # subEditingTask
                               THEN FormInitPriority(formVariant, subEditingTask')
                               ELSE subFormPriority
    /\ net' = rest

\* handleSave / handleDelete / handleComplete after the await of their mutation:
\* fetchSubtasks up to its await, or the catch block that only logs
SubMutationDone(req, rest) ==
    /\ IF req.st = "ok"
       THEN /\ net' = Append(rest, GetSubTasks(task.id, IF req.then = "save" THEN "save" ELSE "none"))
            /\ subLoading' = TRUE
       ELSE /\ net' = rest
            /\ subLoading' = subLoading
    /\ UNCHANGED <<subtasks, subFetched, subModalVisible, subEditingTask, isAddingSubtask,
                   subFormPriority>>

\* the answer to request i reaches the subtask screen
SubDeliver(i) ==
    /\ i \in DOMAIN net
    /\ net[i].st # "sent"
    /\ IF net[i].op = "getSubTasks"
       THEN FetchSubtasksDone(net[i], RemoveAt(net, i))
       ELSE SubMutationDone(net[i], RemoveAt(net, i))
    /\ UNCHANGED <<server, nextId, budget, formVariant, task, subMounted>>
    /\ UNCHANGED offSub

----------------------------------------------------------------------------
(* The single-file application of index.tsx: its gateway, form and screen *)

\* createTask(title, description?, priority = 'medium'): body { title, description,
\* priority }, the priority sent as the string given
LegacyCreateTaskBody(title, priority) ==
    [title |-> title, priority |-> IF priority = JUndef THEN JStr("medium") ELSE priority]

LegacyCreateTask(title, priority, then) ==
    Request("createTask", Absent, LegacyCreateTaskBody(title, priority), then)

\* a request whose awaiting closure captured the list
Seeing(req, list) == [req EXCEPT !.seen = list]

\* the effect on [task, visible] of the form: setPriority(task.priority || 'medium')
LegacyFormInitPriority(t) ==
    IF t # NoTask /\ Truthy(t.priority) THEN JNum(t.priority) ELSE JStr("medium")

LegacyFormEffect ==
    legacyPriority' =
        IF showTaskForm' # showTaskForm \/ legacyEditingTask' # legacyEditingTask
        THEN LegacyFormInitPriority(legacyEditingTask')
        ELSE legacyPriority

\* a filter whose pending view hides nothing
FilteredTasksPendingAll(list, f) ==
    SelectSeq(list, LAMBDA t : CASE f = "completed" -> t.completed
                                 [] OTHER -> TRUE)

\* filteredTasks
FilteredTasks(list, f) ==
    SelectSeq(list, LAMBDA t : CASE f = "completed" -> t.completed
                                 [] f = "pending" -> ~t.completed
                                 [] OTHER -> TRUE)

Filters == {"all", "pending", "completed"}

NoConfirm == [id |-> Absent, seen |-> <<>>]

\* the list is rendered and nothing covers it
LegacyListUsable ==
    /\ legacyMounted
    /\ ~legacyLoading
    /\ ~showTaskForm
    /\ legacyConfirm = NoConfirm
    /\ legacyAlert = "none"

\* the header, the filter buttons and the + button can be pressed
LegacyChromeUsable ==
    /\ legacyMounted
    /\ ~showTaskForm
    /\ legacyConfirm = NoConfirm
    /\ legacyAlert = "none"

LegacyFormUsable ==
    /\ legacyMounted
    /\ showTaskForm
    /\ legacyAlert = "none"

\* useEffect(() => loadTasks(), []); loadTasks up to its await
LegacyMount ==
    /\ ~legacyMounted
    /\ legacyMounted' = TRUE
    /\ legacyLoading' = TRUE
    /\ net' = Append(net, GetTasks("none"))
    /\ UNCHANGED <<server, nextId, budget, formVariant>>
    /\ UNCHANGED <<legacyTasks, showTaskForm, legacyEditingTask, filter, legacyPriority,
                   legacyConfirm, legacyAlert>>
    /\ UNCHANGED offLegacy

\* a filter button: setFilter(f)
SetFilter(f) ==
    /\ LegacyChromeUsable
    /\ filter' = f
    /\ UNCHANGED <<envVars, legacyTasks, legacyLoading, showTaskForm, legacyEditingTask,
                   legacyPriority, legacyConfirm, legacyAlert, legacyMounted>>
    /\ UNCHANGED offLegacy

\* the + button: openNewTask
OpenNewTask ==
    /\ LegacyChromeUsable
    /\ legacyEditingTask' = NoTask
    /\ showTaskForm' = TRUE
    /\ LegacyFormEffect
    /\ UNCHANGED <<envVars, legacyTasks, legacyLoading, filter, legacyConfirm, legacyAlert,
                   legacyMounted>>
    /\ UNCHANGED offLegacy

\* TaskItem Edit: openEditTask(task)
OpenEditTask(i) ==
    /\ LegacyListUsable
    /\ i \in DOMAIN FilteredTasks(legacyTasks, filter)
    /\ legacyEditingTask' = FilteredTasks(legacyTasks, filter)[i]
    /\ showTaskForm' = TRUE
    /\ LegacyFormEffect
    /\ UNCHANGED <<envVars, legacyTasks, legacyLoading, filter, legacyConfirm, legacyAlert,
                   legacyMounted>>
    /\ UNCHANGED offLegacy

\* Cancel of the form: closeTaskForm
CloseTaskForm ==
    /\ LegacyFormUsable
    /\ showTaskForm' = FALSE
    /\ legacyEditingTask' = NoTask
    /\ LegacyFormEffect
    /\ UNCHANGED <<envVars, legacyTasks, legacyLoading, filter, legacyConfirm, legacyAlert,
                   legacyMounted>>
    /\ UNCHANGED offLegacy

\* a priority button of the form
LegacyFormPick(p) ==
    /\ LegacyFormUsable
    /\ legacyPriority' = JStr(p)
    /\ UNCHANGED <<envVars, legacyTasks, legacyLoading, showTaskForm, legacyEditingTask, filter,
                   legacyConfirm, legacyAlert, legacyMounted>>
    /\ UNCHANGED offLegacy

\* onSave={editingTask ? handleUpdateTask : handleCreateTask} up to the await
LegacySaveRequest(taskData) ==
    IF legacyEditingTask # NoTask
    THEN Seeing(UpdateTask(legacyEditingTask.id, taskData, "save"), legacyTasks)
    ELSE Seeing(LegacyCreateTask(taskData.title, taskData.priority, "save"), legacyTasks)

\* Save of the form: handleSave of the form, then the screen's handler
LegacyFormSave(title) ==
    /\ LegacyFormUsable
    /\ IF Trim(title) = <<>>
       THEN /\ legacyAlert' = "title"
            /\ UNCHANGED <<net, budget>>
       ELSE LET req == LegacySaveRequest([title |-> Trim(title), priority |-> legacyPriority])
            IN  /\ CanIssue(req)
                /\ Send(req)
                /\ legacyAlert' = legacyAlert
    /\ UNCHANGED <<server, nextId, formVariant>>
    /\ UNCHANGED <<legacyTasks, legacyLoading, showTaskForm, legacyEditingTask, filter,
                   legacyPriority, legacyConfirm, legacyMounted>>
    /\ UNCHANGED offLegacy

\* TaskItem Done: handleCompleteTask(task.id) up to its await
LegacyPressComplete(i) ==
    /\ LegacyListUsable
    /\ i \in DOMAIN FilteredTasks(legacyTasks, filter)
    /\ LET req == Seeing(CompleteTask(FilteredTasks(legacyTasks, filter)[i].id, "complete"),
                         legacyTasks)
       IN  /\ CanIssue(req)
           /\ Send(req)
    /\ UNCHANGED <<server, nextId, formVariant, legacyVars>>
    /\ UNCHANGED offLegacy

\* TaskItem Delete: handleDeleteTask(task.id) shows the confirmation
LegacyPressDelete(i) ==
    /\ LegacyListUsable
    /\ i \in DOMAIN FilteredTasks(legacyTasks, filter)
    /\ legacyConfirm' = [id |-> FilteredTasks(legacyTasks, filter)[i].id, seen |-> legacyTasks]
    /\ UNCHANGED <<envVars, legacyTasks, legacyLoading, showTaskForm, legacyEditingTask, filter,
                   legacyPriority, legacyAlert, legacyMounted>>
    /\ UNCHANGED offLegacy

\* Cancel of the confirmation
LegacyCancelDelete ==
    /\ legacyConfirm # NoConfirm
    /\ legacyConfirm' = NoConfirm
    /\ UNCHANGED <<envVars, legacyTasks, legacyLoading, showTaskForm, legacyEditingTask, filter,
                   legacyPriority, legacyAlert, legacyMounted>>
    /\ UNCHANGED offLegacy

\* Delete of the confirmation: its onPress up to the await
LegacyConfirmDelete ==
    /\ legacyConfirm # NoConfirm
    /\ LET req == Seeing(DeleteTask(legacyConfirm.id, "delete"), legacyConfirm.seen)
       IN  /\ CanIssue(req)
           /\ Send(req)
    /\ legacyConfirm' = NoConfirm
    /\ UNCHANGED <<server, nextId, formVariant>>
    /\ UNCHANGED <<legacyTasks, legacyLoading, showTaskForm, legacyEditingTask, filter,
                   legacyPriority, legacyAlert, legacyMounted>>
    /\ UNCHANGED offLegacy

\* OK of an error alert
LegacyDismissAlert ==
    /\ legacyAlert # "none"
    /\ legacyAlert' = "none"
    /\ UNCHANGED <<envVars, legacyTasks, legacyLoading, showTaskForm, legacyEditingTask, filter,
                   legacyPriority, legacyConfirm, legacyMounted>>
    /\ UNCHANGED offLegacy

\* loadTasks after its await: try / catch / finally
LoadTasksDone(req) ==
    /\ legacyTasks' = IF req.st = "ok" THEN req.resp ELSE legacyTasks
    /\ legacyAlert' = IF req.st = "ok" THEN legacyAlert ELSE "load"
    /\ legacyLoading' = FALSE
    /\ UNCHANGED <<showTaskForm, legacyEditingTask, legacyPriority>>

\* the list a handler sets after the await of its mutation, from the list its
\* closure captured
LegacyPatched(req) ==
    CASE req.op = "createTask" -> req.resp \o req.seen
      [] req.op = "updateTask" ->
            [k \in DOMAIN req.seen |->
                IF req.seen[k].id = req.id /\ req.resp # <<>> THEN req.resp[1] ELSE req.seen[k]]
      [] req.op = "completeTask" ->
            [k \in DOMAIN req.seen |->
                IF req.seen[k].id = req.id THEN [req.seen[k] EXCEPT !.completed = TRUE]
                ELSE req.seen[k]]
      [] req.op = "deleteTask" -> SelectSeq(req.seen, LAMBDA t : t.id # req.id)

\* handleCreateTask / handleUpdateTask / handleCompleteTask / the delete onPress
\* after the await of their mutation
LegacyMutationDone(req) ==
    IF req.st = "ok"
    THEN /\ legacyTasks' = LegacyPatched(req)
         /\ showTaskForm' = (showTaskForm /\ req.then # "save")
         /\ legacyEditingTask' = IF req.op = "updateTask" THEN NoTask ELSE legacyEditingTask
         /\ LegacyFormEffect
         /\ UNCHANGED <<legacyLoading, legacyAlert>>
    ELSE /\ legacyAlert' = req.then
         /\ UNCHANGED <<legacyTasks, legacyLoading, showTaskForm, legacyEditingTask, legacyPriority>>

\* the answer to request i reaches the screen
LegacyDeliver(i) ==
    /\ i \in DOMAIN net
    /\ net[i].st # "sent"
    /\ IF net[i].op = "getTasks"
       THEN LoadTasksDone(net[i])
       ELSE LegacyMutationDone(net[i])
    /\ net' = RemoveAt(net, i)
    /\ UNCHANGED <<server, nextId, budget, formVariant, filter, legacyConfirm, legacyMounted>>
    /\ UNCHANGED offLegacy

----------------------------------------------------------------------------
(* The root screen against the server *)

\* what the server holds when the screen is constructed
InitialServers ==
    { <<>>,
      <<Task(2, 1, TRUE, "true", 1, 1), Task(1, 3, FALSE, "absent", Absent, Absent)>> }

FirstFreeId(srv) ==
    LET ids == Ids(srv) \cup {0}
    IN  1 + CHOOSE m \in ids : \A k \in ids : k <= m

\* no subtask screen is open
NoSubScreen ==
    /\ task = NoTask
    /\ subtasks = <<>>
    /\ subFetched = FALSE
    /\ subLoading = TRUE
    /\ subModalVisible = FALSE
    /\ subEditingTask = NoTask
    /\ isAddingSubtask = FALSE
    /\ subFormPriority = FormInitPriority(formVariant, NoTask)
    /\ subMounted = FALSE

\* the root screen as constructed
RootConstructed ==
    /\ formPriority = FormInitPriority(formVariant, NoTask)
    /\ tasks = <<>>
    /\ fetched = FALSE
    /\ loading = TRUE
    /\ refreshing = FALSE
    /\ modalVisible = FALSE
    /\ editingTask = NoTask
    /\ suggestedModalVisible = FALSE
    /\ confirmDelete = Absent
    /\ alert = "none"
    /\ nav = "init"

\* the screen of index.tsx is not running
NoLegacyScreen ==
    /\ legacyTasks = <<>>
    /\ legacyLoading = TRUE
    /\ showTaskForm = FALSE
    /\ legacyEditingTask = NoTask
    /\ filter = "all"
    /\ legacyPriority = JStr("medium")
    /\ legacyConfirm = NoConfirm
    /\ legacyAlert = "none"
    /\ legacyMounted = FALSE

\* the gateway's credential left aside: nothing held, nothing called
NoGateway ==
    /\ token = "none"
    /\ stored = "none"
    /\ ops = <<>>
    /\ reqs = <<>>
    /\ session = "fresh"

\* the recovery screens not entered
NoRecovery ==
    /\ recStack = <<"Login">>
    /\ username = <<>>
    /\ forgotLoading = FALSE
    /\ answerInst = 0
    /\ routeUsername = <<>>
    /\ securityQuestion = ""
    /\ answerLoading = FALSE
    /\ questionLoading = TRUE
    /\ resetToken = 0
    /\ recAlert = "none"
    /\ recNet = <<>>
    /\ accounts = {}
    /\ issued = 0
    /\ recBudget = 0
    /\ resetInst = 0
    /\ resetLoading = FALSE
    /\ resetAck = FALSE
    /\ newPassword = <<>>
    /\ confirmPassword = <<>>

\* no answer to handle
NoHandling ==
    /\ reply = [kind |-> "none"]
    /\ outcome = [kind |-> "pending"]

\* no direct call of the gateway
NoCall ==
    /\ call = [title |-> <<>>, priority |-> JUndef, parentTaskId |-> Absent, depth |-> Absent]
    /\ sent = EmptyBody

InitWith(sends) ==
    /\ server \in InitialServers
    /\ nextId = FirstFreeId(server)
    /\ net = <<>>
    /\ budget = sends
    /\ formVariant \in FormVariants
    /\ RootConstructed
    /\ NoSubScreen
    /\ NoLegacyScreen
    /\ NoCall
    /\ NoGateway
    /\ NoHandling
    /\ NoRecovery

Init == InitWith(MaxSends)

UserStep ==
    \/ Mount
    \/ PressTask
    \/ Focus
    \/ Refresh
    \/ OpenAdd
    \/ \E i \in 1..MaxId + 1 : OpenEdit(i)
    \/ \E p \in Priorities : FormPick(p)
    \/ FormCancel
    \/ \E title \in TitleInputs : FormSave(title)
    \/ \E i \in 1..MaxId + 1 : PressComplete(i)
    \/ \E i \in 1..MaxId + 1 : PressDelete(i)
    \/ CancelDelete
    \/ ConfirmDelete
    \/ OpenSuggest
    \/ CloseSuggest

Next ==
    \/ UserStep
    \/ DismissAlert
    \/ \E i \in 1..MaxInflight : ServerOk(i)
    \/ \E i \in 1..MaxInflight : ServerFail(i)
    \/ \E i \in 1..MaxInflight : Deliver(i)

Spec == Init /\ [][Next]_vars

\* the same screen against a server and a network that never fail: no alert is
\* ever raised, so none is dismissed
NextReliable ==
    \/ UserStep
    \/ \E i \in 1..MaxInflight : ServerOk(i)
    \/ \E i \in 1..MaxInflight : Deliver(i)

SpecReliable == Init /\ [][NextReliable]_vars

\* the same screen with room for one more handler run that sends a request
InitTwice == InitWith(MaxSends + 1)

SpecTwice == InitTwice /\ [][Next]_vars

\* the root screen when React runs the mount effects and every request is
\* answered, or fails, and its answer reaches the handler that awaits it
SpecFair ==
    /\ Init
    /\ [][Next]_vars
    /\ WF_vars(Mount)
    /\ WF_vars(\E i \in 1..MaxInflight : ServerOk(i) \/ ServerFail(i))
    /\ WF_vars(\E i \in 1..MaxInflight : Deliver(i))

----------------------------------------------------------------------------
(* The root list screen in its version without a focus effect
   (screens/TodoScreen.tsx, lines 478-670): its mount, its fetch, its
   navigation to the subtask screen and back *)

\* what the server holds when this screen is constructed
NoFocusServers ==
    { <<Task(1, 3, FALSE, "false", Absent, 0), Task(2, 1, FALSE, "true", 1, 1)>>,
      <<Task(1, 2, FALSE, "false", Absent, 0), Task(2, 1, FALSE, "true", 1, 1),
        Task(3, 2, TRUE, "true", 1, 1)>> }

\* useEffect(() => fetchTasks(), []) on mount
MountOnce ==
    /\ nav = "init"
    /\ nav' = "root"
    /\ net' = Append(net, GetTasks("none"))
    /\ budget' = budget
    /\ UNCHANGED <<server, nextId, formVariant, formPriority, tasks, fetched, loading, refreshing,
                   modalVisible, editingTask, suggestedModalVisible, confirmDelete, alert>>
    /\ UNCHANGED offRoot

\* task.subtask_count > 0 for the task shown: the server holds a child of it
HasSubtasks(t) == \E k \in DOMAIN server : server[k].parent_task_id = t.id

\* handleTaskPress: navigation.navigate('SubTaskScreen', { task }) when the
\* task has subtasks
PressTaskWithSubtasks(i) ==
    /\ ListUsable
    /\ i \in DOMAIN tasks
    /\ HasSubtasks(tasks[i])
    /\ nav' = "sub"
    /\ UNCHANGED <<server, nextId, net, budget, formVariant, formPriority, tasks, fetched, loading,
                   refreshing, modalVisible, editingTask, suggestedModalVisible, confirmDelete,
                   alert>>
    /\ UNCHANGED offRoot

\* SubTaskScreen.handleDelete / handleComplete on subtask id while the root
\* screen is under the subtask screen: the request as the server applies it
SubtaskScreenMutates(op, id) ==
    /\ nav = "sub"
    /\ \E k \in DOMAIN server : server[k].id = id /\ server[k].parent_task_id \in Ids(tasks)
    /\ server' = ServerAfter(server, nextId, Request(op, id, EmptyBody, "none"))
    /\ server' # server
    /\ UNCHANGED <<nextId, net, budget, formVariant, rootVars>>
    /\ UNCHANGED offRoot

\* back from the subtask screen: no effect of the screen runs
ReturnToRoot ==
    /\ nav = "sub"
    /\ nav' = "root"
    /\ UNCHANGED <<server, nextId, net, budget, formVariant, formPriority, tasks, fetched, loading,
                   refreshing, modalVisible, editingTask, suggestedModalVisible, confirmDelete,
                   alert>>
    /\ UNCHANGED offRoot

\* RefreshControl.onRefresh of the list, rendered when tasks are shown
RefreshShown ==
    /\ ListUsable
    /\ tasks # <<>>
    /\ CanIssue(GetTasks("none"))
    /\ refreshing' = TRUE
    /\ Send(GetTasks("none"))
    /\ UNCHANGED <<server, nextId, formVariant, formPriority, tasks, fetched, loading,
                   modalVisible, editingTask, suggestedModalVisible, confirmDelete, alert, nav>>
    /\ UNCHANGED offRoot

\* fetchTasks after its await: try / catch (console.error only) / finally
FetchTasksDoneSilent(i) ==
    /\ i \in DOMAIN net
    /\ net[i].st # "sent"
    /\ net[i].op = "getTasks"
    /\ tasks' = IF net[i].st = "ok" THEN ParentTasks(net[i].resp) ELSE tasks
    /\ fetched' = (fetched \/ net[i].st = "ok")
    /\ loading' = FALSE
    /\ refreshing' = FALSE
    /\ net' = RemoveAt(net, i)
    /\ UNCHANGED <<server, nextId, budget, formVariant, formPriority, modalVisible, editingTask,
                   suggestedModalVisible, confirmDelete, alert, nav>>
    /\ UNCHANGED offRoot

NoFocusInit ==
    /\ server \in NoFocusServers
    /\ nextId = FirstFreeId(server)
    /\ net = <<>>
    /\ budget = MaxSends
    /\ formVariant \in FormVariants
    /\ RootConstructed
    /\ NoSubScreen
    /\ NoLegacyScreen
    /\ NoCall
    /\ NoGateway
    /\ NoHandling
    /\ NoRecovery

NoFocusNext ==
    \/ MountOnce
    \/ \E i \in 1..MaxId + 1 : PressTaskWithSubtasks(i)
    \/ \E op \in {"completeTask", "deleteTask"}, id \in 1..MaxId + 1 : SubtaskScreenMutates(op, id)
    \/ ReturnToRoot
    \/ RefreshShown
    \/ \E i \in 1..MaxInflight : ServerOk(i)
    \/ \E i \in 1..MaxInflight : ServerFail(i)
    \/ \E i \in 1..MaxInflight : FetchTasksDoneSilent(i)

NoFocusSpec == NoFocusInit /\ [][NoFocusNext]_vars

----------------------------------------------------------------------------
(* The subtask screen against the server *)

\* what the server holds when a subtask screen is opened: a root task with id 0
\* and no depth field, or a root task with a subtask under it
SubInitialServers ==
    { <<Task(0, 2, FALSE, "absent", Absent, Absent)>>,
      <<Task(1, 3, FALSE, "false", Absent, 0), Task(2, 1, TRUE, "true", 1, 1)>> }

\* the screen is opened on a task of the server, route.params.task
SubInit ==
    /\ server \in SubInitialServers
    /\ nextId = FirstFreeId(server)
    /\ net = <<>>
    /\ budget = MaxSends
    /\ formVariant \in FormVariants
    /\ RootConstructed
    /\ task \in {server[i] : i \in DOMAIN server}
    /\ subtasks = <<>>
    /\ subFetched = FALSE
    /\ subLoading = TRUE
    /\ subModalVisible = FALSE
    /\ subEditingTask = NoTask
    /\ isAddingSubtask = FALSE
    /\ subFormPriority = FormInitPriority(formVariant, NoTask)
    /\ subMounted = FALSE
    /\ NoLegacyScreen
    /\ NoCall
    /\ NoGateway
    /\ NoHandling
    /\ NoRecovery

SubNext ==
    \/ SubMount
    \/ SubRefresh
    \/ \E i \in 1..MaxId + 1 : SubPressComplete(i)
    \/ \E i \in 1..MaxId + 1 : SubPressDelete(i)
    \/ \E i \in 1..MaxId + 1 : HandleUpdate(i)
    \/ HandleAddSubtask
    \/ \E p \in Priorities : SubFormPick(p)
    \/ SubFormCancel
    \/ \E text \in TypedTitles : SubFormSave(HandleTitleChange(formVariant, text))
    \/ \E i \in 1..MaxInflight : ServerOk(i)
    \/ \E i \in 1..MaxInflight : ServerFail(i)
    \/ \E i \in 1..MaxInflight : ServerRefuse(i)
    \/ \E i \in 1..MaxInflight : SubDeliver(i)

SubSpec == SubInit /\ [][SubNext]_vars

----------------------------------------------------------------------------
(* The screen of index.tsx against the server *)

\* index.tsx has its own form; the screens' form is not part of it
LegacyInit ==
    /\ server \in InitialServers
    /\ nextId = FirstFreeId(server)
    /\ net = <<>>
    /\ budget = MaxSends
    /\ formVariant = "plain"
    /\ RootConstructed
    /\ NoSubScreen
    /\ NoLegacyScreen
    /\ NoCall
    /\ NoGateway
    /\ NoHandling
    /\ NoRecovery

LegacyNext ==
    \/ LegacyMount
    \/ \E f \in Filters : SetFilter(f)
    \/ OpenNewTask
    \/ \E i \in 1..MaxId + 1 : OpenEditTask(i)
    \/ CloseTaskForm
    \/ \E p \in Priorities : LegacyFormPick(p)
    \/ \E title \in TitleInputs : LegacyFormSave(title)
    \/ \E i \in 1..MaxId + 1 : LegacyPressComplete(i)
    \/ \E i \in 1..MaxId + 1 : LegacyPressDelete(i)
    \/ LegacyCancelDelete
    \/ LegacyConfirmDelete
    \/ LegacyDismissAlert
    \/ \E i \in 1..MaxInflight : ServerOk(i)
    \/ \E i \in 1..MaxInflight : ServerFail(i)
    \/ \E i \in 1..MaxInflight : LegacyDeliver(i)

LegacySpec == LegacyInit /\ [][LegacyNext]_vars

----------------------------------------------------------------------------
(* APIClient.createTask called directly *)

\* the ids and depths a caller may pass: none, zero, positive
MaxArg == 2

\* createTask(title, priority?, parentTaskId?, depth?)
CreateTaskCalls ==
    [title : {<<"a">>},
     priority : {JUndef} \cup {JStr(p) : p \in Priorities},
     parentTaskId : {Absent} \cup 0..MaxArg,
     depth : {Absent} \cup 0..MaxArg]

CallInit ==
    /\ server = <<>>
    /\ nextId = 1
    /\ net = <<>>
    /\ budget = 0
    /\ formVariant = "plain"
    /\ RootConstructed
    /\ NoSubScreen
    /\ NoLegacyScreen
    /\ call \in CreateTaskCalls
    /\ sent = EmptyBody
    /\ NoGateway
    /\ NoHandling
    /\ NoRecovery

\* APIClient.createTask builds the body and hands it to request()
CallCreateTask ==
    /\ sent = EmptyBody
    /\ sent' = CreateTaskBody(call.title, call.priority, call.parentTaskId, call.depth)
    /\ UNCHANGED <<envVars, rootVars, subVars, legacyVars, call, gatewayVars, handVars, recVars>>

CallNext == CallCreateTask

CallSpec == CallInit /\ [][CallNext]_vars

----------------------------------------------------------------------------
(* The credential of the gateway (APIClient.ts: token, getToken, setToken,
   clearToken, request, login, uploadMarkdownFile).  AsyncStorage promises no
   order between the operations issued to it, so any pending one may complete
   next. *)

\* calls of the gateway in one run, and storage operations pending at once
MaxReqs == 3
MaxOps == 2

\* the token persisted by an earlier session, the token the login answers with
OldToken == "t0"
NewToken == "t1"

\* `Bearer ${token}`
Bearer(tok) == <<"Bearer", tok>>

\* the options a caller hands to request(): none but the method, or with headers
\* of its own, as an upload through request() does
RequestOptions ==
    {[method |-> "GET"],
     [method |-> "POST", headers |-> [ContentType |-> "multipart/form-data"]]}

\* request(): config = { headers: { 'Content-Type': 'application/json',
\*   ...(token ? { Authorization } : {}), ...options.headers }, ...options }
RequestConfig(tok, options) ==
    LET merged == (IF "headers" \in DOMAIN options THEN options.headers ELSE EmptyBody)
                  @@ (IF tok # "none" THEN [Authorization |-> Bearer(tok)] ELSE EmptyBody)
                  @@ [ContentType |-> "application/json"]
    IN  options @@ [headers |-> merged]

\* uploadMarkdownFile(): fetch with the Authorization header alone
UploadConfig(tok) ==
    [method |-> "POST",
     headers |-> IF tok # "none" THEN [Authorization |-> Bearer(tok)] ELSE EmptyBody]

\* the headers operation op puts on the wire with the token getToken() returned
WireHeaders(op, tok, options) ==
    IF op = "upload" THEN UploadConfig(tok).headers ELSE RequestConfig(tok, options).headers

\* the calls a screen can make: an operation through request(), the upload, login
GatewayCalls ==
    {<<"request", o>> : o \in RequestOptions}
    \cup {<<"upload", [method |-> "POST"]>>, <<"login", [method |-> "POST"]>>}

\* a call of the gateway reaches getToken(): with a token in memory the call is
\* dispatched at once, otherwise it waits for AsyncStorage.getItem('token')
CallGateway(c) ==
    /\ Len(reqs) < MaxReqs
    /\ c[1] = "login" => \A i \in DOMAIN reqs : reqs[i].op # "login"
    /\ IF token # "none"
       THEN /\ reqs' = Append(reqs, [op |-> c[1], options |-> c[2], stage |-> "sent",
                                      held |-> token,
                                      headers |-> WireHeaders(c[1], token, c[2]),
                                      began |-> session, sentIn |-> session])
            /\ ops' = ops
       ELSE /\ Len(ops) < MaxOps
            /\ reqs' = Append(reqs, [op |-> c[1], options |-> c[2], stage |-> "reading",
                                      held |-> "none", headers |-> EmptyBody,
                                      began |-> session, sentIn |-> "none"])
            /\ ops' = Append(ops, [kind |-> "get", val |-> "none", req |-> Len(reqs) + 1])
    /\ UNCHANGED <<token, stored, session>>
    /\ UNCHANGED offGateway

\* a pending storage operation completes: a write or a removal takes effect; a
\* read resumes getToken() at  this.token = <value read>; return this.token
\* and the waiting call is dispatched with that value
StorageDone(k) ==
    /\ k \in DOMAIN ops
    /\ ops' = RemoveAt(ops, k)
    /\ CASE ops[k].kind = "set" ->
                /\ stored' = ops[k].val
                /\ UNCHANGED <<token, reqs>>
         [] ops[k].kind = "remove" ->
                /\ stored' = "none"
                /\ UNCHANGED <<token, reqs>>
         [] ops[k].kind = "get" ->
                LET r == reqs[ops[k].req] IN
                /\ token' = stored
                /\ reqs' = [reqs EXCEPT ![ops[k].req] =
                              [r EXCEPT !.stage = "sent", !.held = stored, !.sentIn = session,
                                        !.headers = WireHeaders(r.op, stored, r.options)]]
                /\ stored' = stored
    /\ session' = session
    /\ UNCHANGED offGateway

\* setToken(token)
SetToken(tok) ==
    /\ token' = tok
    /\ ops' = Append(ops, [kind |-> "set", val |-> tok, req |-> 0])

\* login(): the request's answer holds a token; setToken(result.token); return
LoginResolve(i) ==
    /\ i \in DOMAIN reqs
    /\ reqs[i].op = "login"
    /\ reqs[i].stage = "sent"
    /\ Len(ops) < MaxOps
    /\ SetToken(NewToken)
    /\ reqs' = [reqs EXCEPT ![i].stage = "done"]
    /\ session' = "in"
    /\ stored' = stored
    /\ UNCHANGED offGateway

\* clearToken(), called when the user of a session logs out
ClearToken ==
    /\ session = "in" \/ (session = "fresh" /\ stored # "none")
    /\ Len(ops) < MaxOps
    /\ token' = "none"
    /\ ops' = Append(ops, [kind |-> "remove", val |-> "none", req |-> 0])
    /\ session' = "out"
    /\ UNCHANGED <<stored, reqs>>
    /\ UNCHANGED offGateway

\* the app starts with no token in memory and, after an earlier session, one persisted
GatewayInit ==
    /\ server = <<>>
    /\ nextId = 1
    /\ net = <<>>
    /\ budget = 0
    /\ formVariant = "plain"
    /\ RootConstructed
    /\ NoSubScreen
    /\ NoLegacyScreen
    /\ NoCall
    /\ NoHandling
    /\ NoRecovery
    /\ token = "none"
    /\ stored \in {"none", OldToken}
    /\ ops = <<>>
    /\ reqs = <<>>
    /\ session = "fresh"

GatewayNext ==
    \/ \E c \in GatewayCalls : CallGateway(c)
    \/ \E k \in 1..MaxOps : StorageDone(k)
    \/ \E i \in 1..MaxReqs : LoginResolve(i)
    \/ ClearToken

GatewaySpec == GatewayInit /\ [][GatewayNext]_vars

----------------------------------------------------------------------------
(* The handling of an answer (APIClient.ts request lines 88-107, and the
   operations built on request) *)

\* the operations of the gateway: login reads its result, the others return it
GatewayOps == {"login", "getTasks", "completeTask", "deleteTask"}

\* the strings a field of an error body, or response.statusText, may hold
FieldValues == {"", "x"}

\* JSON objects with any of the keys error, message and detail
ErrorBodies ==
    {e @@ m @@ d : e \in {EmptyBody} \cup {[error |-> v] : v \in FieldValues},
                   m \in {EmptyBody} \cup {[message |-> v] : v \in FieldValues},
                   d \in {EmptyBody} \cup {[detail |-> v] : v \in FieldValues}}

\* the text of a response: nothing, text that is not JSON, a JSON object
Bodies ==
    {[kind |-> "empty"], [kind |-> "text", raw |-> "oops"]}
    \cup {[kind |-> "json", data |-> b] : b \in ErrorBodies}

\* what fetch() can give: a response, or a rejection with its message
Replies ==
    [kind : {"response"}, op : GatewayOps, ok : BOOLEAN, statusText : FieldValues, body : Bodies]
    \cup [kind : {"failure"}, op : GatewayOps, message : {"", "Network request failed"}]

\* `HTTP ${response.status}`, the status being 200 when ok and 500 otherwise
HttpText(r) == IF r.ok THEN "HTTP 200" ELSE "HTTP 500"

\* the message of the SyntaxError JSON.parse throws
ParseErrorText == "JSON Parse error"

\* data?.field of the parsed body, undefined when the body or the field is absent
Field(body, name) ==
    IF body.kind = "json" /\ name \in DOMAIN body.data THEN body.data[name] ELSE ""

\* a || b on strings
Or(a, b) == IF a # "" THEN a ELSE b

\* data?.error || data?.message || data?.detail || response.statusText, and then
\* new Error(errorMessage || `HTTP ${response.status}`)
ErrorMessage(r) ==
    Or(Or(Or(Or(Field(r.body, "error"), Field(r.body, "message")), Field(r.body, "detail")),
          r.statusText),
       HttpText(r))

\* request() parsing every body, the empty one included
RequestOutcomeParsingAll(r) ==
    IF r.kind = "failure"
    THEN [kind |-> "thrown", message |-> Or(r.message, "Network error - check your connection")]
    ELSE IF r.body.kind # "json"
    THEN [kind |-> "thrown", message |-> ParseErrorText]
    ELSE IF ~r.ok
    THEN [kind |-> "thrown", message |-> ErrorMessage(r)]
    ELSE [kind |-> "resolved", data |-> r.body]

\* request() from fetch on: the text is parsed unless empty, a response that is
\* not ok throws its error message, and the catch block rethrows
\* new Error(error.message || 'Network error - check your connection')
RequestOutcome(r) ==
    IF r.kind = "failure"
    THEN [kind |-> "thrown", message |-> Or(r.message, "Network error - check your connection")]
    ELSE IF r.body.kind = "text"
    THEN [kind |-> "thrown", message |-> ParseErrorText]
    ELSE IF ~r.ok
    THEN [kind |-> "thrown", message |-> ErrorMessage(r)]
    ELSE [kind |-> "resolved",
          data |-> IF r.body.kind = "empty" THEN [kind |-> "null"] ELSE r.body]

\* the operation on top of request(): login reads result.token, which throws a
\* TypeError on null; the other operations return what request() returns
OperationOutcome(r) ==
    LET o == RequestOutcome(r) IN
    IF r.op = "login" /\ o.kind = "resolved" /\ o.data.kind = "null"
    THEN [kind |-> "thrown", message |-> "TypeError"]
    ELSE o

\* the call ends
Settle ==
    /\ outcome.kind = "pending"
    /\ outcome' = OperationOutcome(reply)
    /\ reply' = reply
    /\ UNCHANGED offHand

HandInit ==
    /\ server = <<>>
    /\ nextId = 1
    /\ net = <<>>
    /\ budget = 0
    /\ formVariant = "plain"
    /\ RootConstructed
    /\ NoSubScreen
    /\ NoLegacyScreen
    /\ NoCall
    /\ NoGateway
    /\ NoRecovery
    /\ reply \in Replies
    /\ outcome = [kind |-> "pending"]

HandNext == Settle

HandSpec == HandInit /\ [][HandNext]_vars

----------------------------------------------------------------------------
(* Password recovery: ForgotPasswordScreen.tsx (the username flow),
   SecurityAnswerScreen.tsx, and the server they talk to *)

\* handler runs that send a request, and requests in flight at once
MaxRecSends == 3
MaxRecInflight == 2

\* what the user may type as a username and as an answer
Usernames == {<<>>, <<" ">>, <<"a">>, <<"b">>}
Answers == {<<>>, <<"y">>, <<"n">>}

\* the answer the server holds for every account
CorrectAnswer == <<"y">>

\* the screen on top of the stack
Top == recStack[Len(recStack)]

\* the stack without its top screen
PopTop(stack) == IF Len(stack) > 1 THEN SubSeq(stack, 1, Len(stack) - 1) ELSE stack

\* the stack without screen name, the first screen staying
PopScreen(stack, name) ==
    IF \E k \in 2..Len(stack) : stack[k] = name
    THEN LET k == CHOOSE j \in 2..Len(stack) : stack[j] = name IN RemoveAt(stack, k)
    ELSE stack

\* navigation.goBack() called by the SecurityAnswerScreen: the navigator pops
\* the screen on top or the calling screen, the same when the caller is on top
GoBack(stack) == {PopTop(stack), PopScreen(stack, "SecurityAnswer")}

\* navigation.navigate(name): back to the screen when it is on the stack, else pushed
Navigate(stack, name) ==
    IF \E k \in DOMAIN stack : stack[k] = name
    THEN SubSeq(stack, 1, CHOOSE k \in DOMAIN stack : stack[k] = name)
    ELSE Append(stack, name)

\* a recovery request in flight, sent by SecurityAnswerScreen instance inst
RecRequest(op, user, answer, inst) ==
    [op |-> op, username |-> user, answer |-> answer, inst |-> inst, st |-> "sent",
     resp |-> [kind |-> "none"]]

\* answering forgot_password the same for every username, one not known included
RecoveryAnswer(accts, n, req) ==
    CASE req.op = "forgotPassword" ->
            [st |-> "ok", resp |-> [kind |-> "empty"]]
      [] req.op = "getSecurityQuestion" ->
            IF req.username \in accts
            THEN [st |-> "ok", resp |-> [kind |-> "question", security_question |-> "q"]]
            ELSE [st |-> "err", resp |-> [kind |-> "error", message |-> "User not found"]]
      [] req.op = "verifySecurityAnswer" ->
            IF req.username \in accts /\ req.answer = CorrectAnswer
            THEN [st |-> "ok", resp |-> [kind |-> "verdict", success |-> TRUE,
                                         reset_token |-> n + 1]]
            ELSE [st |-> "ok", resp |-> [kind |-> "verdict", success |-> FALSE,
                                         reset_token |-> 0]]
      [] req.op = "resetPassword" ->
            IF req.token \in 1..n
            THEN [st |-> "ok", resp |-> [kind |-> "message"]]
            ELSE [st |-> "err", resp |-> [kind |-> "error",
                                          message |-> "Invalid or expired token"]]

\* the server answers recovery request i
RecServerOk(i) ==
    /\ i \in DOMAIN recNet
    /\ recNet[i].st = "sent"
    /\ LET a == RecoveryAnswer(accounts, issued, recNet[i]) IN
       /\ recNet' = [recNet EXCEPT ![i].st = a.st, ![i].resp = a.resp]
       /\ issued' = IF a.resp.kind = "verdict" /\ a.resp.success THEN issued + 1 ELSE issued
    /\ UNCHANGED <<recStack, username, forgotLoading, answerInst, routeUsername,
                   securityQuestion, answerLoading, questionLoading, resetToken, recAlert,
                   accounts, recBudget>>
    /\ UNCHANGED resetForm
    /\ UNCHANGED offRec

\* recovery request i fails on the network: request() throws
RecServerFail(i) ==
    /\ i \in DOMAIN recNet
    /\ recNet[i].st = "sent"
    /\ recNet' = [recNet EXCEPT ![i].st = "err",
                                ![i].resp = [kind |-> "error", message |-> "Network request failed"]]
    /\ UNCHANGED <<recStack, username, forgotLoading, answerInst, routeUsername,
                   securityQuestion, answerLoading, questionLoading, resetToken, recAlert,
                   accounts, issued, recBudget>>
    /\ UNCHANGED resetForm
    /\ UNCHANGED offRec

\* ForgotPasswordScreen: the user types u and presses Security Question
\* (handleSecurityQuestionFlow up to its await)
ForgotSubmit(u) ==
    /\ Top = "ForgotPassword"
    /\ ~forgotLoading
    /\ username' = u
    /\ IF Trim(u) = <<>>
       THEN /\ recAlert' = "Please enter your Username first"
            /\ UNCHANGED <<forgotLoading, recNet, recBudget>>
       ELSE /\ recBudget > 0
            /\ Len(recNet) < MaxRecInflight
            /\ forgotLoading' = TRUE
            /\ recNet' = Append(recNet, RecRequest("forgotPassword", u, <<>>, 0))
            /\ recBudget' = recBudget - 1
            /\ recAlert' = recAlert
    /\ UNCHANGED <<recStack, answerInst, routeUsername, securityQuestion, answerLoading,
                   questionLoading, resetToken, accounts, issued>>
    /\ UNCHANGED resetForm
    /\ UNCHANGED offRec

\* ForgotPasswordScreen: Back to Login
ForgotBack ==
    /\ Top = "ForgotPassword"
    /\ ~forgotLoading
    /\ recStack' = PopTop(recStack)
    /\ UNCHANGED <<username, forgotLoading, answerInst, routeUsername, securityQuestion,
                   answerLoading, questionLoading, resetToken, recAlert, recNet, accounts,
                   issued, recBudget>>
    /\ UNCHANGED resetForm
    /\ UNCHANGED offRec

\* a handler that moves on only for a username the server knows
ForgotMovesKnownOnly(req) == req.st = "ok" /\ req.username \in accounts

\* handleSecurityQuestionFlow navigates when forgotPassword() resolved
ForgotMoves(req) == req.st = "ok"

\* handleSecurityQuestionFlow after its await: navigate to a new
\* SecurityAnswerScreen, whose mount effect fetches the question, or alert
ForgotDone(req, rest) ==
    /\ forgotLoading' = FALSE
    /\ IF ForgotMoves(req)
       THEN /\ recStack' = Navigate(recStack, "SecurityAnswer")
            /\ answerInst' = answerInst + 1
            /\ routeUsername' = req.username
            /\ securityQuestion' = ""
            /\ answerLoading' = FALSE
            /\ questionLoading' = TRUE
            /\ recNet' = Append(rest, RecRequest("getSecurityQuestion", req.username, <<>>,
                                                 answerInst + 1))
            /\ recAlert' = recAlert
       ELSE /\ recAlert' = "Failed to process request. Please try again."
            /\ recNet' = rest
            /\ UNCHANGED <<recStack, answerInst, routeUsername, securityQuestion,
                           answerLoading, questionLoading>>
    /\ resetToken' = resetToken
    /\ UNCHANGED resetForm

\* the SecurityAnswerScreen instance that sent req is the one mounted
Live(req) ==
    /\ req.inst = answerInst
    /\ \E k \in DOMAIN recStack : recStack[k] = "SecurityAnswer"

\* fetchSecurityQuestion after its await
QuestionDone(req, rest) ==
    /\ recNet' = rest
    /\ IF req.st = "ok"
       THEN /\ securityQuestion' = IF Live(req) THEN req.resp.security_question
                                   ELSE securityQuestion
            /\ UNCHANGED <<recStack, recAlert>>
       ELSE /\ recAlert' = req.resp.message
            /\ recStack' \in GoBack(recStack)
            /\ securityQuestion' = securityQuestion
    /\ questionLoading' = IF Live(req) THEN FALSE ELSE questionLoading
    /\ UNCHANGED <<forgotLoading, answerInst, routeUsername, answerLoading, resetToken>>
    /\ UNCHANGED resetForm

\* SecurityAnswerScreen: the user types a and presses Verify Answer
\* (handleSubmit up to its await)
AnswerSubmit(a) ==
    /\ Top = "SecurityAnswer"
    /\ ~questionLoading
    /\ ~answerLoading
    /\ IF Trim(a) = <<>>
       THEN /\ recAlert' = "Please provide an answer"
            /\ UNCHANGED <<answerLoading, recNet, recBudget>>
       ELSE /\ recBudget > 0
            /\ Len(recNet) < MaxRecInflight
            /\ answerLoading' = TRUE
            /\ recNet' = Append(recNet, RecRequest("verifySecurityAnswer", routeUsername, a,
                                                   answerInst))
            /\ recBudget' = recBudget - 1
            /\ recAlert' = recAlert
    /\ UNCHANGED <<recStack, username, forgotLoading, answerInst, routeUsername,
                   securityQuestion, questionLoading, resetToken, accounts, issued>>
    /\ UNCHANGED resetForm
    /\ UNCHANGED offRec

\* SecurityAnswerScreen: Back to Forgot Password
AnswerBack ==
    /\ Top = "SecurityAnswer"
    /\ ~questionLoading
    /\ recStack' = PopTop(recStack)
    /\ UNCHANGED <<username, forgotLoading, answerInst, routeUsername, securityQuestion,
                   answerLoading, questionLoading, resetToken, recAlert, recNet, accounts,
                   issued, recBudget>>
    /\ UNCHANGED resetForm
    /\ UNCHANGED offRec

\* a handler that navigates on every 2xx answer
VerifyMovesAlways(req) == req.st = "ok"

\* handleSubmit navigates when the answer's response says success
VerifyMoves(req) == req.st = "ok" /\ req.resp.success

\* a ResetPasswordScreen is mounted
ResetMounted == \E k \in DOMAIN recStack : recStack[k] = "ResetPassword"

\* handleSubmit after its await
VerifyDone(req, rest) ==
    /\ recNet' = rest
    /\ IF VerifyMoves(req)
       THEN /\ recStack' = Navigate(recStack, "ResetPassword")
            /\ resetToken' = req.resp.reset_token
            /\ recAlert' = recAlert
            /\ IF ResetMounted
               THEN UNCHANGED <<resetInst, resetLoading, newPassword, confirmPassword>>
               ELSE /\ resetInst' = resetInst + 1
                    /\ resetLoading' = FALSE
                    /\ newPassword' = <<>>
                    /\ confirmPassword' = <<>>
       ELSE /\ recAlert' = IF req.st = "ok" THEN "Incorrect answer. Please try again."
                           ELSE req.resp.message
            /\ UNCHANGED <<recStack, resetToken>>
            /\ UNCHANGED <<resetInst, resetLoading, newPassword, confirmPassword>>
    /\ resetAck' = resetAck
    /\ answerLoading' = IF Live(req) THEN FALSE ELSE answerLoading
    /\ UNCHANGED <<forgotLoading, answerInst, routeUsername, securityQuestion, questionLoading>>

----------------------------------------------------------------------------
(* Password recovery, the last step: ResetPasswordScreen.tsx *)

\* the shortest password validatePassword accepts
MinPasswordLength == 6

\* a password of n characters c
Pw(n, c) == [k \in 1..n |-> c]

\* what the user may type as a new password and as its confirmation
Passwords == {Pw(MinPasswordLength - 1, "x"), Pw(MinPasswordLength, "x"),
              Pw(MinPasswordLength, "y")}

\* validatePassword without its check of the length
ValidatePasswordAnyLength(pw, cf) ==
    IF pw # cf THEN "Passwords do not match" ELSE "ok"

\* validatePassword: the alert it raises, "ok" when it returns true
ValidatePassword(pw, cf) ==
    IF Len(pw) < MinPasswordLength THEN "Password must be at least 6 characters long"
    ELSE IF pw # cf THEN "Passwords do not match"
    ELSE "ok"

\* APIClient.resetPassword(token, newPassword) in flight, sent by
\* ResetPasswordScreen instance inst
ResetRequest(tok, pw, inst) ==
    [op |-> "resetPassword", token |-> tok, new_password |-> pw, inst |-> inst,
     st |-> "sent", resp |-> [kind |-> "none"]]

\* the user types pw and cf and presses Reset Password: handleResetPassword up
\* to its await
ResetSubmit(pw, cf) ==
    /\ Top = "ResetPassword"
    /\ ~resetLoading
    /\ ~resetAck
    /\ newPassword' = pw
    /\ confirmPassword' = cf
    /\ IF ValidatePassword(pw, cf) # "ok"
       THEN /\ recAlert' = ValidatePassword(pw, cf)
            /\ UNCHANGED <<resetLoading, recNet, recBudget>>
       ELSE /\ recBudget > 0
            /\ Len(recNet) < MaxRecInflight
            /\ resetLoading' = TRUE
            /\ recNet' = Append(recNet, ResetRequest(resetToken, pw, resetInst))
            /\ recBudget' = recBudget - 1
            /\ recAlert' = recAlert
    /\ UNCHANGED <<recStack, username, forgotLoading, answerInst, routeUsername,
                   securityQuestion, answerLoading, questionLoading, resetToken, accounts,
                   issued, resetInst, resetAck>>
    /\ UNCHANGED offRec

\* the request was sent by the ResetPasswordScreen that is mounted
ResetLive(req) == req.inst = resetInst /\ ResetMounted

\* handleResetPassword after its await
ResetDone(req, rest) ==
    /\ recNet' = rest
    /\ IF req.st = "ok"
       THEN /\ resetAck' = TRUE
            /\ recAlert' = "Password reset successfully! You can now login with your new password."
       ELSE /\ resetAck' = resetAck
            /\ recAlert' = req.resp.message
    /\ resetLoading' = IF ResetLive(req) THEN FALSE ELSE resetLoading
    /\ UNCHANGED <<recStack, forgotLoading, answerInst, routeUsername, securityQuestion,
                   answerLoading, questionLoading, resetToken, resetInst, newPassword,
                   confirmPassword>>

\* the user presses OK on the alert of a successful reset
ResetAcknowledge ==
    /\ resetAck
    /\ resetAck' = FALSE
    /\ recStack' = Navigate(recStack, "Login")
    /\ UNCHANGED <<username, forgotLoading, answerInst, routeUsername, securityQuestion,
                   answerLoading, questionLoading, resetToken, recAlert, recNet, accounts,
                   issued, recBudget, resetInst, resetLoading, newPassword,
                   confirmPassword>>
    /\ UNCHANGED offRec

\* ResetPasswordScreen: Cancel
ResetCancel ==
    /\ Top = "ResetPassword"
    /\ ~resetAck
    /\ recStack' = Navigate(recStack, "Login")
    /\ UNCHANGED <<username, forgotLoading, answerInst, routeUsername, securityQuestion,
                   answerLoading, questionLoading, resetToken, recAlert, recNet, accounts,
                   issued, recBudget, resetInst, resetLoading, resetAck, newPassword,
                   confirmPassword>>
    /\ UNCHANGED offRec

\* the answer to recovery request i reaches the handler that awaits it
RecDeliver(i) ==
    /\ i \in DOMAIN recNet
    /\ recNet[i].st # "sent"
    /\ CASE recNet[i].op = "forgotPassword" -> ForgotDone(recNet[i], RemoveAt(recNet, i))
         [] recNet[i].op = "getSecurityQuestion" -> QuestionDone(recNet[i], RemoveAt(recNet, i))
         [] recNet[i].op = "verifySecurityAnswer" -> VerifyDone(recNet[i], RemoveAt(recNet, i))
         [] recNet[i].op = "resetPassword" -> ResetDone(recNet[i], RemoveAt(recNet, i))
    /\ UNCHANGED <<username, accounts, issued, recBudget>>
    /\ UNCHANGED offRec

\* the user has opened the ForgotPassword screen from the login screen
RecInit ==
    /\ server = <<>>
    /\ nextId = 1
    /\ net = <<>>
    /\ budget = 0
    /\ formVariant = "plain"
    /\ RootConstructed
    /\ NoSubScreen
    /\ NoLegacyScreen
    /\ NoCall
    /\ NoGateway
    /\ NoHandling
    /\ recStack = <<"Login", "ForgotPassword">>
    /\ username = <<>>
    /\ forgotLoading = FALSE
    /\ answerInst = 0
    /\ routeUsername = <<>>
    /\ securityQuestion = ""
    /\ answerLoading = FALSE
    /\ questionLoading = TRUE
    /\ resetToken = 0
    /\ recAlert = "none"
    /\ recNet = <<>>
    /\ accounts \in SUBSET {<<"a">>, <<"b">>}
    /\ issued = 0
    /\ recBudget = MaxRecSends
    /\ resetInst = 0
    /\ resetLoading = FALSE
    /\ resetAck = FALSE
    /\ newPassword = <<>>
    /\ confirmPassword = <<>>

RecNext ==
    \/ \E u \in Usernames : ForgotSubmit(u)
    \/ ForgotBack
    \/ \E a \in Answers : AnswerSubmit(a)
    \/ AnswerBack
    \/ \E pw \in Passwords, cf \in Passwords : ResetSubmit(pw, cf)
    \/ ResetAcknowledge
    \/ ResetCancel
    \/ \E i \in 1..MaxRecInflight : RecServerOk(i)
    \/ \E i \in 1..MaxRecInflight : RecServerFail(i)
    \/ \E i \in 1..MaxRecInflight : RecDeliver(i)

RecSpec == RecInit /\ [][RecNext]_vars

----------------------------------------------------------------------------
(* Statements about the root screen *)

\* the answer to list request i reaches the screen in this step
FetchDelivered(i, st) ==
    /\ i \in DOMAIN net
    /\ net[i].op = "getTasks"
    /\ net[i].st = st
    /\ net' \in {RemoveAt(net, i)}

\* the positions of a response whose task is not a subtask
Kept(resp) == {j \in DOMAIN resp : resp[j].is_subtask \in {"false", "absent"}}

\* out is resp without its subtasks: same elements, same order, same multiplicity
IsRootView(out, resp) ==
    /\ Len(out) = Cardinality(Kept(resp))
    /\ \A k \in DOMAIN out :
            \E j \in Kept(resp) :
                /\ Cardinality({m \in Kept(resp) : m <= j}) = k
                /\ out[k] = resp[j]

UniqueIds(s) == \A i, j \in DOMAIN s : s[i].id = s[j].id => i = j

\* C1: after a successful fetch the root list is exactly the response's tasks that
\* are not subtasks (is_subtask false or absent), in the server's order, and holds
\* no task twice when the response's ids are unique
C1_RootListIsFilteredResponse ==
    [][\A i \in DOMAIN net :
            FetchDelivered(i, "ok") =>
                /\ IsRootView(tasks', net[i].resp)
                /\ UniqueIds(net[i].resp) => UniqueIds(tasks')]_vars

\* a fetch has filtered subtasks out of a response and kept a task without the flag
C1_Witness ==
    /\ fetched
    /\ tasks # <<>>
    /\ Len(tasks) < Len(server)
    /\ \E k \in DOMAIN tasks : tasks[k].is_subtask = "absent"

\* C3 as stated: a failed fetch leaves the root list as it was, and the list is
\* empty after a failed fetch only if no fetch has ever succeeded
C3_AsStated ==
    [][\A i \in DOMAIN net :
            FetchDelivered(i, "err") =>
                /\ tasks' = tasks
                /\ tasks' = <<>> => ~fetched]_vars

\* C3 as amended: a failed fetch leaves the root list as it was (so the list is
\* empty after it only if it was empty before it), and before the first successful
\* fetch the list is empty
C3_FailedFetchKeepsList ==
    [][\A i \in DOMAIN net :
            FetchDelivered(i, "err") =>
                /\ tasks' = tasks
                /\ ~fetched => tasks' = <<>>]_vars

\* a fetch failed after an earlier one had filled the list, which is still shown
C3_Witness ==
    /\ alert = "fetch"
    /\ fetched
    /\ tasks # <<>>

\* C5: once all requests of the screen have completed, the root list shows the
\* server's root tasks as they are after the mutations, whatever the order in
\* which the answers arrived (server and network never failing)
C5_IssuanceOrder ==
    (nav # "init" /\ net = <<>>) => IsRootView(tasks, server)

\* C6: never two requests of the same mutating action for the same task in flight
C6_NoDuplicateSubmission ==
    \A i, j \in DOMAIN net :
        (i < j /\ net[i].op \in Mutations /\ net[i].op = net[j].op) => net[i].id # net[j].id

\* a subtask fetch's answer is handed to the screen in this step
SubFetchDelivered(i) ==
    /\ i \in DOMAIN net
    /\ net[i].op = "getSubTasks"
    /\ net[i].st # "sent"
    /\ net' \in {RemoveAt(net, i)}

\* C4: a subtask fetch that fails (an error, or an answer with success false)
\* after an earlier fetch of the screen succeeded leaves the subtask list as it was
C4_SubFailedFetchKeepsList ==
    [][\A i \in DOMAIN net :
            (SubFetchDelivered(i) /\ net[i].st \in {"err", "refused"} /\ subFetched) =>
                subtasks' = subtasks]_vars

\* the depth of a parent, an absent depth counting as 0
DepthOf(parent) == IF parent.depth = Absent THEN 0 ELSE parent.depth

\* C7: every create request sent from the subtask screen of parent P carries
\* parent_task_id = P.id and depth = P.depth + 1, whatever P's id and depth
C7_SubtaskCreateCarriesParent ==
    \A i \in DOMAIN net :
        net[i].op = "createTask" =>
            /\ "parent_task_id" \in DOMAIN net[i].body
            /\ net[i].body.parent_task_id = task.id
            /\ "depth" \in DOMAIN net[i].body
            /\ net[i].body.depth = DepthOf(task) + 1

\* low -> 1, medium -> 2, high -> 3
Ordinal(p) == CASE p = "low" -> 1 [] p = "medium" -> 2 [] p = "high" -> 3

\* the form of the subtask screen is saved for a new subtask in this step
SubCreateSaved ==
    /\ SubFormUsable
    /\ subEditingTask = NoTask
    /\ isAddingSubtask
    /\ Len(net') = Len(net) + 1
    /\ net'[Len(net')].op = "createTask"

\* C9: saving a new subtask with priority p chosen in the form sends a create
\* request whose priority is the ordinal of p
C9_SubtaskCreateCarriesChosenPriority ==
    [][\A p \in Priorities :
            (SubCreateSaved /\ subFormPriority = JStr(p)) =>
                /\ "priority" \in DOMAIN net'[Len(net')].body
                /\ net'[Len(net')].body.priority = JNum(Ordinal(p))]_vars

\* a fetch of the screen of index.tsx is handed to it in this step
LegacyFetchDelivered(i) ==
    /\ i \in DOMAIN net
    /\ net[i].op = "getTasks"
    /\ net[i].st = "ok"
    /\ net' \in {RemoveAt(net, i)}

\* a successful mutation's answer is handed to its handler in this step
MutationDelivered(i) ==
    /\ i \in DOMAIN net
    /\ net[i].op \in Mutations
    /\ net[i].st = "ok"
    /\ \/ net' = RemoveAt(net, i)
       \/ /\ net' # net
          /\ Len(net') = Len(net)
          /\ SubSeq(net', 1, Len(net) - 1) = RemoveAt(net, i)

\* the step ends with a newly issued fetch of a list as its last request
RefetchIssued(i) ==
    /\ Len(net') = Len(net)
    /\ net'[Len(net')].op \in {"getTasks", "getSubTasks"}
    /\ net'[Len(net')].st = "sent"

\* C2: on every task screen a successful create, update, complete or delete is
\* followed by a refetch of the screen's list, and the displayed list only ever
\* changes by being replaced with the response of a fetch
C2_RefetchNeverPatch ==
    [][/\ \A i \in DOMAIN net : MutationDelivered(i) => RefetchIssued(i)
       /\ tasks' # tasks =>
            \E i \in DOMAIN net : FetchDelivered(i, "ok") /\ tasks' = ParentTasks(net[i].resp)
       /\ subtasks' # subtasks =>
            \E i \in DOMAIN net :
                SubFetchDelivered(i) /\ net[i].st = "ok" /\ subtasks' = net[i].resp
       /\ legacyTasks' # legacyTasks =>
            \E i \in DOMAIN net : LegacyFetchDelivered(i) /\ legacyTasks' = net[i].resp]_vars

\* C8: createTask sends the ordinal of the priority given (medium when none is
\* given), and the body holds parent_task_id and depth, with the values given,
\* exactly when the caller supplied them
C8_CreateTaskBodyAsSupplied ==
    sent # EmptyBody =>
        /\ "priority" \in DOMAIN sent
        /\ sent.priority = IF call.priority = JUndef THEN JNum(2)
                           ELSE JNum(Ordinal(call.priority.s))
        /\ "parent_task_id" \in DOMAIN sent <=> call.parentTaskId # Absent
        /\ "parent_task_id" \in DOMAIN sent => sent.parent_task_id = call.parentTaskId
        /\ "depth" \in DOMAIN sent <=> call.depth # Absent
        /\ "depth" \in DOMAIN sent => sent.depth = call.depth

\* the maps between the two forms of a priority undo each other
PriorityMapsInverse ==
    /\ \A n \in 1..3 :
            /\ CreatePriorityLookup(FormPriorityLabel(n)) = JNum(n)
            /\ CreatePriorityLookup(SubPriorityString(JNum(n))) = JNum(n)
    /\ \A p \in Priorities :
            /\ CreatePriorityLookup(JStr(p)).k = "num"
            /\ FormPriorityLabel(CreatePriorityLookup(JStr(p)).n) = JStr(p)
            /\ SubPriorityString(CreatePriorityLookup(JStr(p))) = JStr(p)

\* the edit form of the root screen is saved in this step with the priority it
\* was opened with
EditSavedUntouched ==
    /\ FormUsable
    /\ editingTask # NoTask
    /\ formPriority = FormInitPriority(formVariant, editingTask)
    /\ Len(net') = Len(net) + 1
    /\ net'[Len(net')].op = "updateTask"

\* C10: the priority maps are mutual inverses, and saving the edit form of a task
\* of numeric priority n without touching the picker sends an update whose
\* priority is the number n
C10_PriorityRoundTrip ==
    [][/\ PriorityMapsInverse
       /\ EditSavedUntouched =>
            /\ "priority" \in DOMAIN net'[Len(net')].body
            /\ net'[Len(net')].body.priority = JNum(editingTask.priority)]_vars

----------------------------------------------------------------------------
(* Statements about the credential of the gateway *)

\* call i of the gateway has been dispatched
Dispatched(i) == i \in DOMAIN reqs /\ reqs[i].stage # "reading"

\* call i went out with tok as its bearer credential
Carries(i, tok) ==
    /\ "Authorization" \in DOMAIN reqs[i].headers
    /\ reqs[i].headers.Authorization = Bearer(tok)

\* the caller of call i passed headers of its own
OwnHeaders(i) == "headers" \in DOMAIN reqs[i].options

\* C11: every call of the gateway made after login() returned with a token is
\* dispatched with Authorization: Bearer <that token> (calls that pass headers
\* of their own are left to C13)
C11_LoginTokenCarried ==
    \A i \in DOMAIN reqs :
        (Dispatched(i) /\ reqs[i].began = "in" /\ ~OwnHeaders(i)) => Carries(i, NewToken)

\* C12: a call made after the credential was cleared, and dispatched before any
\* new login, carries no credential
C12_ClearedTokenNotCarried ==
    \A i \in DOMAIN reqs :
        (Dispatched(i) /\ reqs[i].began = "out" /\ reqs[i].sentIn = "out" /\ ~OwnHeaders(i))
            => "Authorization" \notin DOMAIN reqs[i].headers

\* C13: a call dispatched while a credential is held carries
\* Authorization: Bearer <that credential>, whatever options the caller passed
C13_CredentialAlwaysAttached ==
    \A i \in DOMAIN reqs :
        (Dispatched(i) /\ reqs[i].held # "none") => Carries(i, reqs[i].held)

----------------------------------------------------------------------------
(* Statements about the handling of an answer *)

\* the call has ended
Settled == outcome.kind # "pending"

\* the text of a response body; a JSON object's text is not empty
RawText(body) ==
    CASE body.kind = "empty" -> ""
      [] body.kind = "text" -> body.raw
      [] body.kind = "json" -> "json"

\* C14: a response that is not 2xx, and a network failure, make the call throw;
\* for a response the message is the first available of the body's error, its
\* message, its detail, the raw text of the body, a generic network-error text
C14_ErrorMessageOrder ==
    (Settled /\ (reply.kind = "failure" \/ ~reply.ok)) =>
        /\ outcome.kind = "thrown"
        /\ reply.kind = "response" =>
             outcome.message =
                Or(Or(Or(Or(Field(reply.body, "error"), Field(reply.body, "message")),
                         Field(reply.body, "detail")),
                      RawText(reply.body)),
                   "Network error - check your connection")

\* a 2xx response with an empty body
EmptySuccess == reply.kind = "response" /\ reply.ok /\ reply.body.kind = "empty"

----------------------------------------------------------------------------
(* Statements about failures of mutations on the task screens *)

\* the failure of mutation i is handed to its screen in this step
FailureDelivered(i) ==
    /\ i \in DOMAIN net
    /\ net[i].op \in Mutations
    /\ net[i].st = "err"
    /\ \/ net' = RemoveAt(net, i)
       \/ /\ net' # net
          /\ Len(net') = Len(net)
          /\ SubSeq(net', 1, Len(net) - 1) = RemoveAt(net, i)

\* the step is the completion of a successful save: its refetch has ended
SaveCompleted ==
    \E i \in DOMAIN net :
        /\ net[i].op = "getTasks"
        /\ net[i].then = "save"
        /\ net[i].st # "sent"
        /\ net' = RemoveAt(net, i)

\* C16: the failure of a create or an update leaves the form as it is (open,
\* with the priority entered and the edited task selected) and sends nothing
\* again; the form closes only on cancel, which sends nothing, or when a save
\* has succeeded
C16_FormKeptUntilSuccess ==
    [][/\ \A i \in 1..MaxInflight :
            (FailureDelivered(i) /\ net[i].then = "save") =>
                /\ net' = RemoveAt(net, i)
                /\ modalVisible' = modalVisible
                /\ editingTask' = editingTask
                /\ formPriority' = formPriority
       /\ (modalVisible /\ ~modalVisible') => (net' = net \/ SaveCompleted)]_vars

\* C17: the failure of a mutation raises an alert that names the failed action
C17_FailureNotified ==
    [][\A i \in 1..MaxInflight : FailureDelivered(i) => alert' = net[i].then]_vars

----------------------------------------------------------------------------
(* Statements about password recovery *)

\* the answer to recovery request i is handed to its handler in this step
RecDelivered(i) ==
    /\ i \in DOMAIN recNet
    /\ recNet[i].st # "sent"
    /\ \/ recNet' = RemoveAt(recNet, i)
       \/ /\ recNet' # recNet
          /\ Len(recNet') = Len(recNet)
          /\ SubSeq(recNet', 1, Len(recNet) - 1) = RemoveAt(recNet, i)

\* the outcome of forgotPassword request i is handed to the first step
ForgotDelivered(i) == RecDelivered(i) /\ recNet[i].op = "forgotPassword"

VerifyDelivered(i) == RecDelivered(i) /\ recNet[i].op = "verifySecurityAnswer"

\* request i was answered with a successful verification
Verified(i) == recNet[i].st = "ok" /\ recNet[i].resp.success

\* the reset screen is on the stack
ResetEntered == \E k \in DOMAIN recStack : recStack[k] = "ResetPassword"

\* C19: the reset step is entered, and its token set, only when a successful
\* verification is delivered, and with the reset token of that response; a
\* failed verification changes neither the stack nor the token, sends nothing,
\* and leaves the answer step free to submit again
C19_ResetOnlyAfterVerification ==
    [][/\ (resetToken' # resetToken \/ (ResetEntered' /\ ~ResetEntered)) =>
            \E i \in 1..MaxRecInflight :
                /\ VerifyDelivered(i)
                /\ Verified(i)
                /\ Top' = "ResetPassword"
                /\ resetToken' = recNet[i].resp.reset_token
       /\ \A i \in 1..MaxRecInflight :
            (VerifyDelivered(i) /\ ~Verified(i)) =>
                /\ recStack' = recStack
                /\ resetToken' = resetToken
                /\ recNet' = RemoveAt(recNet, i)
                /\ Live(recNet[i]) => ~answerLoading']_vars

\* the reset step has been entered with a token, after a wrong answer
C19_Witness ==
    /\ Top = "ResetPassword"
    /\ resetToken # 0
    /\ recAlert = "Incorrect answer. Please try again."

\* C20: a failed fetch of the security question returns the user to the first
\* step, and the answer step is usable only with a question fetched
C20_FailedFetchAborts ==
    [][/\ \A i \in 1..MaxRecInflight :
            (RecDelivered(i) /\ recNet[i].op = "getSecurityQuestion" /\ recNet[i].st = "err")
                => Top' = "ForgotPassword"
       /\ (Top' = "SecurityAnswer" /\ ~questionLoading') => securityQuestion' # ""]_vars

\* a resetPassword request is sent in this step
ResetSent ==
    /\ Len(recNet') = Len(recNet) + 1
    /\ recNet'[Len(recNet')].op = "resetPassword"

\* C21: a resetPassword request is sent only with a new password of at least
\* six characters that equals its confirmation, and it carries the token the
\* verification step handed over and that password; a password that is too
\* short or differs from its confirmation raises an alert and sends nothing
C21_ResetSentOnlyValidated ==
    [][/\ ResetSent =>
            LET r == recNet'[Len(recNet')] IN
                /\ Len(r.new_password) >= MinPasswordLength
                /\ r.new_password = newPassword'
                /\ newPassword' = confirmPassword'
                /\ r.token = resetToken
                /\ r.token \in 1..issued
       /\ (/\ resetInst' = resetInst
           /\ <<newPassword', confirmPassword'>> # <<newPassword, confirmPassword>>
           /\ (Len(newPassword') < MinPasswordLength \/ newPassword' # confirmPassword')) =>
                /\ recNet' = recNet
                /\ recStack' = recStack
                /\ recAlert' \in {"Password must be at least 6 characters long",
                                  "Passwords do not match"}]_vars

\* a resetPassword request is in flight, after a password was rejected for
\* its length
C21_Witness ==
    /\ \E i \in DOMAIN recNet : recNet[i].op = "resetPassword" /\ recNet[i].st = "sent"
    /\ recAlert = "Password must be at least 6 characters long"

\* C22: once entered, the reset step is left only by acknowledging a reset
\* that succeeded, and then for the login screen
C22_ResetLeftOnlyAfterSuccess ==
    [][(ResetMounted /\ ~ResetMounted') => (resetAck /\ Top' = "Login")]_vars

\* the collection srv holds task id as completed
HeldCompleted(srv, id) == \E k \in DOMAIN srv : srv[k].id = id /\ srv[k].completed

\* the server answers request i in this step
Answered(i) ==
    /\ i \in DOMAIN net
    /\ i \in DOMAIN net'
    /\ net[i].st = "sent"
    /\ net'[i].st # "sent"

C24_UndoReverts ==
    [][\A i \in 1..MaxInflight :
          (/\ Answered(i)
           /\ net[i].op = "completeTask"
           /\ net'[i].st = "ok"
           /\ HeldCompleted(subtasks, net[i].id)) => ~HeldCompleted(server', net[i].id)]_vars

\* a delete request is sent in this step
DeleteSent ==
    /\ Len(net') = Len(net) + 1
    /\ net'[Len(net')].op = "deleteTask"

\* C25: a delete request is sent only by the Delete of a confirmation prompt,
\* for the task the prompt asks about, and closing the prompt otherwise sends
\* nothing and leaves the list as it is
C25_DeleteOnlyConfirmed ==
    [][/\ DeleteSent => (/\ confirmDelete # Absent
                         /\ confirmDelete' = Absent
                         /\ net'[Len(net')].id = confirmDelete)
       /\ (confirmDelete # Absent /\ confirmDelete' = Absent /\ ~DeleteSent) =>
            (net' = net /\ tasks' = tasks)]_vars

\* the positions of list whose task the view under filter f shows
Visible(list, f) == {k \in DOMAIN list : \E j \in DOMAIN FilteredTasks(list, f) :
                                            FilteredTasks(list, f)[j] = list[k]}

\* sub lists tasks of list in the order list holds them
InHeldOrder(sub, list) ==
    \A a, b \in DOMAIN sub :
        a < b => \E i, j \in DOMAIN list : i < j /\ list[i] = sub[a] /\ list[j] = sub[b]

\* C26: the view is a function of the held list and the filter alone: filtering
\* the view again gives the view, the pending and the completed views share no
\* task and together hold every task of the list, each in the held order, the
\* all view is the list, and a change of the filter neither changes the list
\* nor sends a request
C26_FilterPure ==
    [][/\ \A f \in Filters :
            /\ FilteredTasks(FilteredTasks(legacyTasks, f), f) = FilteredTasks(legacyTasks, f)
            /\ InHeldOrder(FilteredTasks(legacyTasks, f), legacyTasks)
       /\ FilteredTasks(legacyTasks, "all") = legacyTasks
       /\ Visible(legacyTasks, "pending") \cap Visible(legacyTasks, "completed") = {}
       /\ Visible(legacyTasks, "pending") \cup Visible(legacyTasks, "completed")
            = DOMAIN legacyTasks
       /\ Len(FilteredTasks(legacyTasks, "pending"))
            + Len(FilteredTasks(legacyTasks, "completed")) = Len(legacyTasks)
       /\ filter' # filter => (legacyTasks' = legacyTasks /\ net' = net)]_vars

\* the pending view hides a completed task of the held list
C26_Witness ==
    /\ filter = "pending"
    /\ FilteredTasks(legacyTasks, filter) # <<>>
    /\ FilteredTasks(legacyTasks, filter) # legacyTasks

\* C27: no create or update request carries a title that is empty or blank,
\* and none sent from the capped form carries a title of more than
\* MAX_TITLE_LENGTH characters
C27_NoInvalidTitleSent ==
    \A i \in DOMAIN net :
        net[i].op \in {"createTask", "updateTask"} =>
            /\ Trim(net[i].body.title) # <<>>
            /\ formVariant = "capped" => Len(net[i].body.title) <= MAX_TITLE_LENGTH

\* the capped form has sent the title typed beyond the cap, cut to the cap
C27_Witness ==
    /\ formVariant = "capped"
    /\ \E i \in DOMAIN net :
            /\ net[i].op \in {"createTask", "updateTask"}
            /\ Len(net[i].body.title) = MAX_TITLE_LENGTH

\* the answer to request i is handed to its screen in this step
Delivered(i) ==
    /\ i \in DOMAIN net
    /\ net[i].st # "sent"
    /\ \/ net' = RemoveAt(net, i)
       \/ /\ net' # net
          /\ Len(net') = Len(net)
          /\ SubSeq(net', 1, Len(net) - 1) = RemoveAt(net, i)

\* the request sent last in this step is a fetch of the subtasks of the parent
SubtasksRefetched ==
    /\ net' # <<>>
    /\ net'[Len(net')].op = "getSubTasks"
    /\ net'[Len(net')].id = task.id
    /\ net'[Len(net')].st = "sent"

\* C28: the subtask screen of parent P lists through getSubTasks(P.id) only,
\* on mount and after each mutation that succeeded; P does not change while
\* the screen lives; the server answers with the children of P in its order,
\* and a fetch that succeeded shows exactly the subtasks of its response
C28_SubtasksFetchedByParent ==
    [][/\ task' = task
       /\ \A i \in DOMAIN net' :
            /\ net'[i].op # "getTasks"
            /\ net'[i].op = "getSubTasks" => net'[i].id = task.id
       /\ (~subMounted /\ subMounted') => SubtasksRefetched
       /\ \A i \in 1..MaxInflight :
            /\ (Delivered(i) /\ net[i].op \in Mutations /\ net[i].st = "ok")
                    => SubtasksRefetched
            /\ (Delivered(i) /\ net[i].op = "getSubTasks" /\ net[i].st = "ok")
                    => subtasks' = net[i].resp
            /\ (Answered(i) /\ net[i].op = "getSubTasks" /\ net'[i].st = "ok")
                    => net'[i].resp = ServerSubtasks(server, task.id)]_vars

\* the list shows two subtasks of the parent, one of them created from the screen
C28_Witness ==
    /\ subFetched
    /\ Len(subtasks) = 2
    /\ subtasks = ServerSubtasks(server, task.id)

\* C29: when the root screen regains focus from the subtask screen it sends a
\* fetch of the root list
C29_FocusRefetches ==
    [][(nav = "sub" /\ nav' = "root") =>
            /\ Len(net') = Len(net) + 1
            /\ net'[Len(net')].op = "getTasks"
            /\ net'[Len(net')].st = "sent"]_vars

\* C30: until it is mounted the root screen is loading with an empty list;
\* it leaves the loading state, and never enters it again; every fetch that
\* completes, with a success or a failure, clears loading and refreshing, and
\* a refreshing flag that is set is cleared
C30_LoadingEnds ==
    /\ [](nav = "init" => (loading /\ tasks = <<>> /\ ~refreshing))
    /\ <>~loading
    /\ [][~loading => ~loading']_vars
    /\ [][\A i \in 1..MaxInflight :
            (Delivered(i) /\ net[i].op = "getTasks") => (~loading' /\ ~refreshing')]_vars
    /\ (refreshing ~> ~refreshing)

\* the screen has left the loading state though no fetch has succeeded, and a
\* pull to refresh has been answered with a failure
C30_Witness ==
    /\ ~loading
    /\ ~fetched
    /\ ~refreshing
    /\ alert = "fetch"
    /\ budget < MaxSends
    /\ net = <<>>

====
